---- MODULE Spec2Model ----
(***************************************************************************)
(* skill-porter: conversion of a skill directory between the Claude skill  *)
(* layout (SKILL.md, .claude-plugin/marketplace.json) and the Gemini       *)
(* extension layout (gemini-extension.json, GEMINI.md).                    *)
(*                                                                         *)
(* The module holds several specifications over one set of variables:      *)
(*   SpecPerm  the tool-permission mapper of the two converters            *)
(*   SpecDoc   the context documents the two converters generate           *)
(*   Spec      SkillPorter.convert: detect, convert, validate, on a disk   *)
(*   SpecSet   the settings inferred from the MCP server environments      *)
(*   SpecVal   SkillPorter.validate and the PlatformValidator              *)
(*   SpecRace  interleaved calls of one PlatformValidator instance         *)
(*   SpecShared   the shared documentation directory of the converters     *)
(*   SpecServers  the MCP server transformation of the two converters      *)
(*   SpecYaml  the two frontmatter extractors                              *)
(***************************************************************************)
EXTENDS Integers, Sequences, FiniteSets, TLC

VARIABLES
    \* ---- tool-permission mapper (SpecPerm)
    permPc,        \* "source" | "gemini" | "claude": which document was emitted last
    permFrom,      \* "claude" | "gemini": the platform of the source document
    skillTools,    \* frontmatter['allowed-tools'] of the source SKILL.md
    geminiTools,   \* excludeTools of gemini-extension.json
    claudeTools,   \* frontmatter['allowed-tools'] of the generated SKILL.md
    permWarnings   \* this.metadata.warnings of the ClaudeToGeminiConverter

permVars == <<permPc, permFrom, skillTools, geminiTools, claudeTools, permWarnings>>

VARIABLES
    \* ---- generated context documents (SpecDoc)
    docPc,         \* "claude" | "gemini": the document written last; "failed"; "off"
    docFrom,       \* "claude" | "gemini": the platform of the first document
    docOrig,       \* the body of the first document
    skillBody,     \* SKILL.md after its frontmatter block, as lines
    geminiMd,      \* GEMINI.md, as lines
    docCount,      \* the number of conversions made
    docSettings,   \* manifest.settings.length
    docDesc        \* the description of the document written last: "ok" | "empty" | "none"

docVars == <<docPc, docFrom, docOrig, skillBody, geminiMd, docCount, docSettings, docDesc>>

VARIABLES
    \* ---- SkillPorter.convert on a disk (Spec)
    disk,          \* the directories "src" and "out": the files in each
    pc,            \* the position of the call of SkillPorter.convert
    call,          \* the arguments of the call, and the I/O fault it meets
    detection,     \* what PlatformDetector.detect returned
    source,        \* this.metadata.source of the converter
    metaWarnings,  \* this.metadata.warnings of the converter
    result,        \* the result object of the converter, then of SkillPorter.convert
    thrown         \* the message of the Error the call rejected with, or ""

convVars == <<disk, pc, call, detection, source, metaWarnings, result, thrown>>

VARIABLES
    \* ---- settings inference (SpecSet)
    setPc,         \* "input" | "inferred"; "off"
    mcpServers,    \* the server configs given to _inferSettingsFromMCPConfig
    inferred       \* the settings it returned

setVars == <<setPc, mcpServers, inferred>>

VARIABLES
    \* ---- Validator.validate (SpecVal)
    valPc,         \* "input" | "validated" | "thrown"; "off"
    valDir,        \* the directory validated
    valPlatform,   \* the platform argument
    valResult      \* the ValidationResult returned

valVars == <<valPc, valDir, valPlatform, valResult>>

VARIABLES
    \* ---- validate calls in flight on one Validator (SpecRace)
    raceCalls,     \* the calls: position, directory, platform, result returned
    raceHeap,      \* the arrays allocated by this.errors = [], this.warnings = []
    raceThis       \* the arrays this.errors and this.warnings refer to; 0 is "off"

raceVars == <<raceCalls, raceHeap, raceThis>>

VARIABLES
    \* ---- conversions in turn into one output directory (SpecShared)
    shPc,          \* the position of the converter in convert(); "off"
    shDir,         \* the directory shared/ of the output directory
    shBefore,      \* shared/ as it was when the conversion began
    shRuns,        \* the number of conversions begun
    shSuccess      \* result.success of the conversion that returned last

shVars == <<shPc, shDir, shBefore, shRuns, shSuccess>>

VARIABLES
    \* ---- server configs through the converters (SpecServers)
    srvPc,         \* "source" | "gemini" | "again" | "claude"; "off"
    srvSource,     \* plugins[0].mcpServers of the source marketplace.json
    srvGemini,     \* _transformMCPServers of it: mcpServers of the manifest
    srvAgain,      \* _transformMCPServers of srvGemini
    srvClaude      \* _transformMCPServersForClaude of srvGemini

srvVars == <<srvPc, srvSource, srvGemini, srvAgain, srvClaude>>

VARIABLES
    \* ---- the metadata-block extractors (SpecYaml)
    yamlPc,        \* "input" | "detected" | "parsed"; "off"
    yamlLines,     \* the lines between the two --- lines of a SKILL.md
    yamlDetector,  \* what PlatformDetector._extractYAMLFrontmatter returned
    yamlValidator  \* what Validator._parseYAML returned

yamlVars == <<yamlPc, yamlLines, yamlDetector, yamlValidator>>

vars ==
    <<permVars, docVars, convVars, setVars, valVars, raceVars, shVars, srvVars, yamlVars>>

\* the variables a specification leaves alone
nonPermVars == <<docVars, convVars, setVars, valVars, raceVars, shVars, srvVars,
    yamlVars>>
nonDocVars == <<permVars, convVars, setVars, valVars, raceVars, shVars, srvVars,
    yamlVars>>
nonConvVars == <<permVars, docVars, setVars, valVars, raceVars, shVars, srvVars,
    yamlVars>>
nonSetVars == <<permVars, docVars, convVars, valVars, raceVars, shVars, srvVars,
    yamlVars>>
nonValVars == <<permVars, docVars, convVars, setVars, raceVars, shVars, srvVars,
    yamlVars>>
nonRaceVars == <<permVars, docVars, convVars, setVars, valVars, shVars, srvVars,
    yamlVars>>
nonShVars == <<permVars, docVars, convVars, setVars, valVars, raceVars, srvVars,
    yamlVars>>
nonSrvVars == <<permVars, docVars, convVars, setVars, valVars, raceVars, shVars,
    yamlVars>>
nonYamlVars == <<permVars, docVars, convVars, setVars, valVars, raceVars, shVars, srvVars>>

----------------------------------------------------------------------------
(* Bounds of the model *)

\* the largest number of repeated entries added to an allowed-tools list
MaxDup == 1
\* the largest number of tokens outside the universe added to a list
MaxUnknown == 1
\* the largest number of paragraphs of a hand-written document body
MaxParas == 2
\* the largest number of conversions applied in turn to one document
MaxConversions == 4
\* the largest number of settings of a manifest
MaxSettings == 1
\* the largest number of env entries of the server configs together
MaxEnvEntries == 3
\* the largest number of validate calls made on one Validator
MaxCalls == 2
\* the largest number of arguments of a server config
MaxArgs == 2
\* the largest number of lines of a metadata block
MaxLines == 3

----------------------------------------------------------------------------
(* Helpers on sequences *)

Range(s) == {s[i] : i \in 1..Len(s)}

\* Array.prototype.includes
Includes(list, x) == \E i \in 1..Len(list) : list[i] = x

Reverse(s) == [i \in 1..Len(s) |-> s[Len(s) + 1 - i]]

Repeat(x, n) == [i \in 1..n |-> x]

----------------------------------------------------------------------------
(* The capability universe *)

\* const allTools, identical in both converters
AllTools ==
    << "Read", "Write", "Edit", "Glob", "Grep", "Bash", "Task",
       "WebFetch", "WebSearch", "TodoWrite", "AskUserQuestion",
       "SlashCommand", "Skill", "NotebookEdit", "BashOutput", "KillShell" >>

ToolSet == Range(AllTools)

\* tokens that are not capability names of the universe
UnknownTools == << "mcp__db__query", "mcp__db__write", "mcp__fs__list" >>

ToolWarning ==
    "Tool restrictions may not translate exactly - review excludeTools in gemini-extension.json"

\* an absent field of a document
NoList == [present |-> FALSE, items |-> << >>]
SomeList(l) == [present |-> TRUE, items |-> l]

\* the allowed-tools value of a frontmatter: absent, a YAML array, or a YAML
\* string "a, b, c", held as its comma-separated pieces, each with the
\* whitespace around its token
NoTools == [kind |-> "absent", arr |-> << >>, str |-> << >>]
ArrayTools(l) == [kind |-> "array", arr |-> l, str |-> << >>]
StringTools(l) ==
    [kind |-> "string", arr |-> << >>,
     str |-> [i \in 1..Len(l) |-> [ws |-> (i > 1), tok |-> l[i]]]]

\* String.prototype.trim on one piece of the split string
Trim(piece) == piece.tok

\* JavaScript truthiness of frontmatter['allowed-tools']: an array is truthy
\* even when empty, a string is truthy unless empty
Truthy(tools) ==
    \/ tools.kind = "array"
    \/ tools.kind = "string" /\ Len(tools.str) > 0

----------------------------------------------------------------------------
(* Tool-permission mapper *)

\* "Normalize allowed tools to array": an array is taken as it is, a string is
\* split at its commas and every piece trimmed, anything else gives []
NormalizeAllowed(tools) ==
    IF tools.kind = "array" THEN tools.arr
    ELSE IF tools.kind = "string"
         THEN IF Len(tools.str) = 0 THEN << "" >>
              ELSE [i \in 1..Len(tools.str) |-> Trim(tools.str[i])]
         ELSE << >>

\* allTools.filter(tool => !allowed.includes(tool))
ExcludedOfKept(allowed) == SelectSeq(AllTools, LAMBDA t : Includes(allowed, t))
ExcludedOf(allowed) == SelectSeq(AllTools, LAMBDA t : ~Includes(allowed, t))

\* the threshold of the exclusion list: excluded.length > allowed.length
MoreExcludedGe(excluded, allowed) == Len(excluded) >= Len(allowed)
MoreExcluded(excluded, allowed) == Len(excluded) > Len(allowed)

\* _convertAllowedToolsToExclude: the exclusion list, and metadata.warnings
\* after the call
convertAllowedToolsToExclude(tools, warnings) ==
    LET allowed == NormalizeAllowed(tools)
        excluded == ExcludedOf(allowed)
    IN  IF MoreExcluded(excluded, allowed)
        THEN [result |-> excluded, warnings |-> warnings]
        ELSE [result |-> << >>, warnings |-> Append(warnings, ToolWarning)]

\* _convertExcludeToAllowedTools
convertExcludeToAllowedToolsInputOrder(excludeTools) ==
    Reverse(SelectSeq(AllTools, LAMBDA t : ~Includes(excludeTools, t)))
convertExcludeToAllowedTools(excludeTools) ==
    SelectSeq(AllTools, LAMBDA t : ~Includes(excludeTools, t))

\* the guard of _generateGeminiManifest on frontmatter['allowed-tools']
HasAllowedTools(tools) == Truthy(tools)

\* the guard of _generateClaudeSkill on manifest.excludeTools
HasExcludeTools(field) == field.present /\ Len(field.items) > 0

\* the excludeTools field _generateGeminiManifest puts in the manifest
ManifestExcludeTools(tools, warnings) ==
    IF HasAllowedTools(tools)
    THEN LET r == convertAllowedToolsToExclude(tools, warnings)
         IN  [field |-> SomeList(r.result), warnings |-> r.warnings]
    ELSE [field |-> NoList, warnings |-> warnings]

\* the allowed-tools field _generateClaudeSkill puts in the frontmatter
FrontmatterAllowedTools(field) ==
    IF HasExcludeTools(field)
    THEN SomeList(convertExcludeToAllowedTools(field.items))
    ELSE NoList

----------------------------------------------------------------------------
(* Documents as text.  A string is the sequence of its lines, the pieces    *)
(* between its newline characters: "a\n" is <<"a", "">> and the empty string *)
(* is <<"">>.  A line is one of the lines the converters write or look for,  *)
(* or Text, any other non-blank line.                                        *)

Blank == ""
Text == "<text>"
GeminiTitle == "# <name> - Gemini CLI Extension"
ClaudeTitle == "# <name> - Claude Code Skill"
Description == "<description>"
Undefined == "undefined"
Null == "null"
QuickStart == "## Quick Start"
AfterInstall ==
    "After installation, you can use this extension by asking questions or giving commands naturally."
Rule == "---"
GeminiFooter ==
    "*This extension was converted from a Claude Code skill using [skill-porter](https://github.com/jduncan-rva/skill-porter)*"
ClaudeFooter ==
    "*This skill was converted from a Gemini CLI extension using [skill-porter](https://github.com/jduncan-rva/skill-porter)*"
ConfigHead == "## Configuration"
ConfigIntro == "This skill requires the following environment variables:"
ConfigItem == "- <setting.name>: <setting.description>"
ConfigEnd == "Set these in your environment or Claude Code configuration."
UsageHead == "## Usage"
UsageText == "Use this skill when you need <description>."

EmptyStr == << Blank >>

\* the lines of a document that end with an asterisk
EndsWithStar(line) == line \in {GeminiFooter, ClaudeFooter}

\* two pieces of text put on one line
Merge(x, y) == IF x = Blank THEN y ELSE IF y = Blank THEN x ELSE Text

\* string concatenation: the last line of a continues with the first of b
Cat(a, b) ==
    SubSeq(a, 1, Len(a) - 1) \o << Merge(a[Len(a)], b[1]) >> \o SubSeq(b, 2, Len(b))

RECURSIVE CatAll(_)
CatAll(parts) ==
    IF Len(parts) = 0 THEN EmptyStr
    ELSE IF Len(parts) = 1 THEN parts[1]
    ELSE Cat(parts[1], CatAll(Tail(parts)))

Min(S) == CHOOSE x \in S : \A y \in S : x <= y

Count(str, line) == Cardinality({i \in 1..Len(str) : str[i] = line})

\* String.prototype.trim: the blank lines at both ends go
RECURSIVE DropLeading(_)
DropLeading(str) ==
    IF Len(str) > 0 /\ str[1] = Blank THEN DropLeading(Tail(str)) ELSE str

TrimStr(str) ==
    LET t == Reverse(DropLeading(Reverse(DropLeading(str))))
    IN  IF Len(t) = 0 THEN EmptyStr ELSE t

\* replace(/^#\s+.+?\s+-\s+Gemini CLI Extension\n\n/m, ''): the first Gemini
\* title line that a blank line follows goes, with the blank line
RemoveGeminiTitle(str) ==
    LET I == {i \in 1..(Len(str) - 2) : str[i] = GeminiTitle /\ str[i + 1] = Blank}
    IN  IF I = {} THEN str
        ELSE SubSeq(str, 1, Min(I) - 1) \o SubSeq(str, Min(I) + 2, Len(str))

\* replace(/##\s+Quick Start[\s\S]+?After installation.+?\n\n/m, ''): from the
\* first Quick Start heading to the nearest After-installation line that a
\* blank line follows, with the blank line
RemoveQuickStart(str) ==
    LET I == {i \in 1..Len(str) : str[i] = QuickStart}
    IN  IF I = {} THEN str
        ELSE LET i == Min(I)
                 J == {j \in (i + 1)..(Len(str) - 2) :
                           str[j] = AfterInstall /\ str[j + 1] = Blank}
             IN  IF J = {} THEN str
                 ELSE SubSeq(str, 1, i - 1) \o SubSeq(str, Min(J) + 2, Len(str))

\* replace(/\n---\n\n\*This extension was converted.+?\*\n$/s, ''): when the
\* text ends with "*\n", everything goes from the newline before the first
\* rule line that is followed by a blank line and a Gemini footer line
RemoveGeminiFooter(str) ==
    LET n == Len(str)
        I == {i \in 2..(n - 3) :
                  str[i] = Rule /\ str[i + 1] = Blank /\ str[i + 2] = GeminiFooter}
    IN  IF n >= 2 /\ str[n] = Blank /\ EndsWithStar(str[n - 1]) /\ I # {}
        THEN SubSeq(str, 1, Min(I) - 1)
        ELSE str

\* the line a template writes for a description: an undefined one reads
\* "undefined", an empty one leaves the line empty
DescLine(desc) ==
    IF desc = "none" THEN Undefined
    ELSE IF desc = "blank" THEN Null
    ELSE IF desc = "empty" THEN Blank
    ELSE Description

\* frontmatter.description || marketplace?.plugins?.[0]?.description || ''
ManifestDescription(desc, pluginDesc) ==
    IF desc \notin {"none", "empty", "blank"} THEN desc
    ELSE IF pluginDesc THEN "ok" ELSE "empty"

\* _generateGeminiContext: the text of GEMINI.md for the body of a SKILL.md
GeminiContext(content, desc) ==
    CatAll(<< << GeminiTitle, Blank, Blank >>,
              << DescLine(desc), Blank, Blank >>,
              << QuickStart, Blank, AfterInstall, Blank, Blank >>,
              content,
              << Blank, Blank, Rule, Blank, Blank >>,
              << GeminiFooter, Blank >> >>)

\* the content of a context file with the Gemini boilerplate removed
CleanContent(content) ==
    RemoveGeminiFooter(RemoveQuickStart(RemoveGeminiTitle(content)))

\* the "Configuration" section for n settings
ConfigSection(n) ==
    IF n = 0 THEN EmptyStr
    ELSE CatAll(<< << ConfigHead, Blank, ConfigIntro, Blank, Blank >>,
                   Repeat(ConfigItem, n) \o << Blank >>,
                   << Blank, ConfigEnd, Blank, Blank >> >>)

\* _generateClaudeSkill throws a TypeError on manifest.description.toLowerCase()
\* when the description is undefined and no content is left
ClaudeSkillThrows(content, desc) ==
    TrimStr(CleanContent(content)) = EmptyStr /\ desc = "none"

\* _generateClaudeSkill: the text of SKILL.md after its frontmatter block
ClaudeSkillBody(content, nSettings, desc) ==
    LET clean == TrimStr(CleanContent(content))
    IN  CatAll(<< << Blank, Blank >>,
                  << ClaudeTitle, Blank, Blank >>,
                  << DescLine(desc), Blank, Blank >>,
                  ConfigSection(nSettings),
                  IF clean # EmptyStr
                  THEN Cat(clean, << Blank, Blank, Blank >>)
                  ELSE << UsageHead, Blank, UsageText, Blank, Blank >>,
                  << Rule, Blank, Blank >>,
                  << ClaudeFooter, Blank >> >>)

----------------------------------------------------------------------------
(* The files of a skill directory.  A field of a document is held by what   *)
(* the code asks of it: whether it is there, and which check it passes.     *)

\* a name: "ok" is my-skill; "upper" does not match /^[a-z0-9-]+$/;
\* "none" is no name
NameKinds == {"ok", "upper", "none"}
\* a description: "ok" has 50 to 1024 characters, "short" fewer than 50,
\* "empty" is '', "none" is no description
DescKinds == {"ok", "short", "empty", "none"}

\* SKILL.md: state "absent" | "nofm" (no frontmatter block) | "ok" |
\* "unreadable" (fs.access fulfils and fs.readFile rejects: the path is a
\* directory, or a file without read permission)
NoSkill ==
    [state |-> "absent", name |-> "none", desc |-> "none", tools |-> NoTools, body |-> EmptyStr]
NoFrontmatterSkill ==
    [state |-> "nofm", name |-> "none", desc |-> "none", tools |-> NoTools,
     body |-> << Text, Blank >>]
UnreadableSkill ==
    [state |-> "unreadable", name |-> "none", desc |-> "none", tools |-> NoTools,
     body |-> EmptyStr]
SkillFile(name, desc, tools, body) ==
    [state |-> "ok", name |-> name, desc |-> desc, tools |-> tools, body |-> body]

\* .claude-plugin/marketplace.json: state "absent" | "badjson" | "ok" |
\* "unreadable"
MarketplaceFile(state, name, meta, metaDesc, version, plugins, pname, pdesc, mcp, envVars) ==
    [state |-> state, name |-> name, meta |-> meta, metaDesc |-> metaDesc,
     version |-> version, plugins |-> plugins, pname |-> pname, pdesc |-> pdesc,
     mcp |-> mcp, envVars |-> envVars]
\* plugins is "none" (no plugins key), "empty" ([]) or "one" (one entry)
NoMarketplace ==
    MarketplaceFile("absent", FALSE, FALSE, FALSE, FALSE, "none", FALSE, FALSE, "none", 0)
BadMarketplace ==
    MarketplaceFile("badjson", FALSE, FALSE, FALSE, FALSE, "none", FALSE, FALSE, "none", 0)
UnreadableMarketplace ==
    MarketplaceFile("unreadable", FALSE, FALSE, FALSE, FALSE, "none", FALSE, FALSE, "none", 0)

\* gemini-extension.json: state "absent" | "badjson" | "ok" | "unreadable"
\* mcp is "none" (no mcpServers), "ok" (one server with a command) or "nocmd"
\* (one server without a command); envVars counts the ${VAR} names its env
\* refers to, settings the entries of the settings array
ManifestFile(state, name, version, desc, excl, mcp, envVars, settings) ==
    [state |-> state, name |-> name, version |-> version, desc |-> desc,
     excl |-> excl, mcp |-> mcp, envVars |-> envVars, settings |-> settings]
NoManifest == ManifestFile("absent", "none", FALSE, "none", NoList, "none", 0, 0)
BadManifest == ManifestFile("badjson", "none", FALSE, "none", NoList, "none", 0, 0)
UnreadableManifest == ManifestFile("unreadable", "none", FALSE, "none", NoList, "none", 0, 0)

\* GEMINI.md
NoContext == [present |-> FALSE, text |-> EmptyStr]
ContextFile(text) == [present |-> TRUE, text |-> text]

\* a directory: shared is "absent", "user" (a shared/ directory with the
\* user's documents), "partial" (created, a placeholder missing) or
\* "placeholders" (created with reference.md and examples.md)
Dir(exists, skill, market, manifest, context, shared) ==
    [exists |-> exists, skill |-> skill, market |-> market, manifest |-> manifest,
     context |-> context, shared |-> shared]
EmptyDir == Dir(TRUE, NoSkill, NoMarketplace, NoManifest, NoContext, "absent")
MissingDir == Dir(FALSE, NoSkill, NoMarketplace, NoManifest, NoContext, "absent")

Dirs == {"src", "out"}

\* path.basename of a directory
BaseName(d) == IF d = "src" THEN "my-skill" ELSE "converted"
\* the string a name stands for
NameString(name) ==
    IF name = "ok" THEN "my-skill" ELSE IF name = "upper" THEN "My-Skill" ELSE "undefined"

\* the paths of the files a conversion writes
Path(d, file) == << d, file >>

----------------------------------------------------------------------------
(* PlatformDetector *)

PLATFORM_CLAUDE == "claude"
PLATFORM_GEMINI == "gemini"
PLATFORM_UNIVERSAL == "universal"
PLATFORM_UNKNOWN == "unknown"

\* _detectClaudeFiles
detectClaudeFiles(dir) ==
    (IF dir.skill.state # "absent"
     THEN << [file |-> "SKILL.md", valid |-> dir.skill.state = "ok"] >> ELSE << >>)
    \o
    (IF dir.market.state # "absent"
     THEN << [file |-> ".claude-plugin/marketplace.json", valid |-> dir.market.state = "ok"] >>
     ELSE << >>)

\* _detectGeminiFiles
detectGeminiFiles(dir) ==
    (IF dir.manifest.state # "absent"
     THEN << [file |-> "gemini-extension.json", valid |-> dir.manifest.state = "ok"] >>
     ELSE << >>)
    \o
    (IF dir.context.present THEN << [file |-> "GEMINI.md", valid |-> TRUE] >> ELSE << >>)

\* "Determine platform type"
PlatformOf(hasClaude, hasGemini) ==
    IF hasClaude /\ hasGemini THEN PLATFORM_UNIVERSAL
    ELSE IF hasClaude THEN PLATFORM_CLAUDE
    ELSE IF hasGemini THEN PLATFORM_GEMINI
    ELSE PLATFORM_UNKNOWN

NoDetection ==
    [platform |-> PLATFORM_UNKNOWN, confidence |-> "low", claude |-> << >>, gemini |-> << >>]

\* _extractMetadata reads marketplace.json and gemini-extension.json, when
\* they exist, outside any try block: a read that rejects is thrown by detect
\* as 'Detection failed: ...'.  A marketplace.json that exists makes the
\* platform claude or universal, a gemini-extension.json gemini or universal
extractMetadataThrows(dir) ==
    dir.market.state = "unreadable" \/ dir.manifest.state = "unreadable"

\* detect throws
detectThrows(dir) == ~dir.exists \/ extractMetadataThrows(dir)

\* detect, on a directory that exists
detect(dir) ==
    LET claudeFiles == detectClaudeFiles(dir)
        geminiFiles == detectGeminiFiles(dir)
        platform == PlatformOf(Len(claudeFiles) > 0, Len(geminiFiles) > 0)
    IN  [platform |-> platform,
         confidence |-> IF platform = PLATFORM_UNKNOWN THEN "low" ELSE "high",
         claude |-> claudeFiles, gemini |-> geminiFiles]

----------------------------------------------------------------------------
(* SpecPerm: the permission fields through one conversion or a round trip *)

\* the variables of a part of the model that a specification leaves alone
PermOff ==
    /\ permPc = "off" /\ permFrom = "none"
    /\ skillTools = NoTools /\ geminiTools = NoList /\ claudeTools = NoList
    /\ permWarnings = << >>
DocOff ==
    /\ docPc = "off" /\ docFrom = "none"
    /\ docOrig = EmptyStr /\ skillBody = EmptyStr /\ geminiMd = EmptyStr
    /\ docCount = 0 /\ docSettings = 0 /\ docDesc = "ok"

NoSource ==
    [skill |-> NoSkill, market |-> NoMarketplace, manifest |-> NoManifest, content |-> EmptyStr]
NoValidation == [ran |-> FALSE, valid |-> FALSE, errors |-> << >>, warnings |-> << >>]
NoResult ==
    [success |-> FALSE, files |-> << >>, warnings |-> << >>, errors |-> << >>,
     message |-> "", platform |-> "", metadata |-> FALSE, validation |-> NoValidation]
NoCall == [op |-> "none", target |-> "none", out |-> "src", validate |-> TRUE]
ConvOff ==
    /\ disk = [d \in Dirs |-> MissingDir]
    /\ pc = "off"
    /\ call = NoCall
    /\ detection = NoDetection
    /\ source = NoSource
    /\ metaWarnings = << >>
    /\ result = NoResult
    /\ thrown = ""

SetOff == setPc = "off" /\ mcpServers = << >> /\ inferred = << >>
RaceOff == raceCalls = << >> /\ raceHeap = << >> /\ raceThis = 0
NoParsed == [keys |-> << >>, values |-> << >>]
YamlOff ==
    /\ yamlPc = "off" /\ yamlLines = << >>
    /\ yamlDetector = NoParsed /\ yamlValidator = NoParsed
SrvOff ==
    /\ srvPc = "off" /\ srvSource = << >> /\ srvGemini = << >>
    /\ srvAgain = << >> /\ srvClaude = << >>
NoShared == [exists |-> FALSE, reference |-> "absent", examples |-> "absent"]
ShOff ==
    /\ shPc = "off" /\ shDir = NoShared /\ shBefore = NoShared
    /\ shRuns = 0 /\ shSuccess = FALSE
ValOff ==
    /\ valPc = "off" /\ valDir = MissingDir /\ valPlatform = "none"
    /\ valResult = NoValidation

\* the members of S in the universe's order, or in the opposite order
ListOf(S, order) ==
    LET declared == SelectSeq(AllTools, LAMBDA t : t \in S)
    IN  IF order = "declared" THEN declared ELSE Reverse(declared)

\* a list with its first entry repeated dup times and unk unknown tokens added
WithExtras(l, dup, unk) ==
    l \o (IF Len(l) > 0 THEN Repeat(l[1], dup) ELSE << >>)
      \o SubSeq(UnknownTools, 1, unk)

\* the shapes an allowed-tools list is given in: the universe's order or the
\* opposite one, a YAML string, with repeated entries, with unknown tokens
SkillToolsForms ==
    {[kind |-> "array", order |-> o, dup |-> 0, unk |-> 0] : o \in {"declared", "reversed"}}
    \cup {[kind |-> "string", order |-> "declared", dup |-> 0, unk |-> 0]}
    \cup {[kind |-> "array", order |-> "declared", dup |-> d, unk |-> 0] : d \in 1..MaxDup}
    \cup {[kind |-> "array", order |-> "declared", dup |-> 0, unk |-> u] : u \in 1..MaxUnknown}

\* the allowed-tools value of the subset S in the shape f
SkillToolsInput(S, f) ==
    LET l == WithExtras(ListOf(S, f.order), f.dup, f.unk)
    IN  IF f.kind = "array" THEN ArrayTools(l) ELSE StringTools(l)

PermInit ==
    /\ RaceOff
    /\ ShOff
    /\ SrvOff
    /\ YamlOff
    /\ DocOff
    /\ ConvOff
    /\ SetOff
    /\ ValOff
    /\ permPc = "source"
    /\ claudeTools = NoList
    /\ permWarnings = << >>
    /\ \/ /\ permFrom = "claude"
          /\ geminiTools = NoList
          /\ \/ skillTools = NoTools
             \/ \E S \in SUBSET ToolSet : \E f \in SkillToolsForms :
                    skillTools = SkillToolsInput(S, f)
       \/ /\ permFrom = "gemini"
          /\ skillTools = NoTools
          /\ \/ geminiTools = NoList
             \/ \E S \in SUBSET ToolSet : \E o \in {"declared", "reversed"} :
                    geminiTools = SomeList(ListOf(S, o))

\* Claude -> Gemini: "Convert allowed-tools to excludeTools"
MapAllowedTools ==
    /\ permPc = "source"
    /\ permFrom = "claude"
    /\ LET m == ManifestExcludeTools(skillTools, permWarnings)
       IN  /\ geminiTools' = m.field
           /\ permWarnings' = m.warnings
    /\ permPc' = "gemini"
    /\ UNCHANGED <<permFrom, skillTools, claudeTools>>
    /\ UNCHANGED nonPermVars

\* Gemini -> Claude: "Convert excludeTools to allowed-tools", on a source
\* manifest or on the manifest a Claude -> Gemini conversion has written
MapExcludeTools ==
    /\ \/ permPc = "source" /\ permFrom = "gemini"
       \/ permPc = "gemini"
    /\ claudeTools' = FrontmatterAllowedTools(geminiTools)
    /\ permPc' = "claude"
    /\ UNCHANGED <<permFrom, skillTools, geminiTools, permWarnings>>
    /\ UNCHANGED nonPermVars

PermNext == MapAllowedTools \/ MapExcludeTools

SpecPerm == PermInit /\ [][PermNext]_vars

----------------------------------------------------------------------------
(* SpecDoc: the context documents through conversions applied in turn *)

\* the lines a hand-written paragraph is drawn from
ParaLines ==
    {Text, Description, QuickStart, AfterInstall, Rule,
     ClaudeTitle, ClaudeFooter, GeminiTitle, GeminiFooter}

\* the text of paragraphs separated by blank lines: "p1\n\np2\n"
ParasToStr(ps) ==
    IF Len(ps) = 0 THEN EmptyStr
    ELSE [i \in 1..(2 * Len(ps)) |-> IF i % 2 = 1 THEN ps[(i + 1) \div 2] ELSE Blank]

\* yaml.dump of a frontmatter with an undefined value throws or leaves the key
\* out, depending on the js-yaml version installed
YamlDumpMayThrow(name, desc) == name = "none" \/ desc = "none"

DocInit ==
    /\ RaceOff
    /\ ShOff
    /\ SrvOff
    /\ YamlOff
    /\ PermOff
    /\ ConvOff
    /\ SetOff
    /\ ValOff
    /\ docCount = 0
    /\ docSettings \in 0..MaxSettings
    /\ docDesc \in {"ok", "none"}
    /\ \E n \in 0..MaxParas : \E ps \in [1..n -> ParaLines] :
          \/ /\ docFrom = "claude" /\ docPc = "claude"
             /\ skillBody = Cat(<< Blank, Blank >>, ParasToStr(ps))
             /\ geminiMd = EmptyStr
             /\ docOrig = skillBody
          \/ /\ docFrom = "gemini" /\ docPc = "gemini"
             /\ geminiMd = ParasToStr(ps)
             /\ skillBody = EmptyStr
             /\ docOrig = geminiMd

\* Claude -> Gemini: _generateGeminiContext on the body of SKILL.md; the
\* manifest gets the description of the frontmatter, or ''
DocToGemini ==
    /\ docPc = "claude"
    /\ docCount < MaxConversions
    /\ geminiMd' = GeminiContext(skillBody, docDesc)
    /\ docDesc' = ManifestDescription(docDesc, FALSE)
    /\ docPc' = "gemini"
    /\ docCount' = docCount + 1
    /\ UNCHANGED <<docFrom, docOrig, skillBody, docSettings>>
    /\ UNCHANGED nonDocVars

\* Gemini -> Claude: _generateClaudeSkill on the content of GEMINI.md
DocToClaude ==
    /\ docPc = "gemini"
    /\ docCount < MaxConversions
    /\ \/ /\ ~ClaudeSkillThrows(geminiMd, docDesc)
          /\ skillBody' = ClaudeSkillBody(geminiMd, docSettings, docDesc)
          /\ docPc' = "claude"
       \/ /\ YamlDumpMayThrow("ok", docDesc) \/ ClaudeSkillThrows(geminiMd, docDesc)
          /\ skillBody' = skillBody
          /\ docPc' = "failed"
    /\ docCount' = docCount + 1
    /\ UNCHANGED <<docFrom, docOrig, geminiMd, docSettings, docDesc>>
    /\ UNCHANGED nonDocVars

DocNext == DocToGemini \/ DocToClaude

SpecDoc == DocInit /\ [][DocNext]_vars

----------------------------------------------------------------------------
(* Validator.  The texts of the model hold no backslash, the server         *)
(* arguments name no mcp-server path, and every entry of a settings array   *)
(* has a name and a description.  A name or a description of a frontmatter  *)
(* is the text _parseYAML finds after the colon of its key: "none" is a key *)
(* that is absent, "blank" a key with nothing after its colon, which        *)
(* _parseYAML reads as an empty array, and "empty" a description written    *)
(* as '', which it reads as the string of the two quote characters.         *)

\* frontmatter.name.length, for the names of the model
NameLength(name) ==
    IF name \in {"ok", "upper"} THEN 8
    ELSE IF name = "len64" THEN 64
    ELSE IF name = "len65" THEN 65
    ELSE 0

\* /^[a-z0-9-]+$/.test(frontmatter.name); an empty array tests as ''
NamePattern(name) == name \in {"ok", "len64", "len65"}

\* frontmatter.description.length, for the descriptions of the model
DescLength(desc) ==
    IF desc = "ok" THEN 60
    ELSE IF desc = "short" THEN 40
    ELSE IF desc = "empty" THEN 2
    ELSE IF desc = "one" THEN 1
    ELSE IF desc = "len49" THEN 49
    ELSE IF desc = "len50" THEN 50
    ELSE IF desc = "len1024" THEN 1024
    ELSE IF desc = "len1025" THEN 1025
    ELSE IF desc = "len1100" THEN 1100
    ELSE 0

\* frontmatter.name.length > 64
NameTooLong(length) == length > 64
\* frontmatter.description.length > 1024
DescTooLongFrom1024(length) == length >= 1024
DescTooLong(length) == length > 1024
\* frontmatter.description.length < 50
DescTooShort(length) == length < 50

ErrNoName == "SKILL.md frontmatter missing required field: name"
ErrNamePattern == "Skill name must be lowercase letters, numbers, and hyphens only"
ErrNameLength == "Skill name must be 64 characters or less"
ErrNoDescription == "SKILL.md frontmatter missing required field: description"
ErrDescLength == "Description must be 1024 characters or less"
WarnDescShort == "Description should be descriptive (at least 50 characters recommended)"
ErrNoSkillFile == "Missing required file: SKILL.md"
ErrSkillNoFrontmatter == "SKILL.md must have YAML frontmatter"
ErrNoPlugins == "marketplace.json missing required field: plugins (array)"
ErrValidationThrew == "Validation failed: fs.readFile rejects"
WarnNoMarketplace ==
    "Missing .claude-plugin/marketplace.json (recommended for MCP server integration)"
ErrNoManifestFile == "Missing required file: gemini-extension.json"
ErrManifestInvalid == "Invalid JSON in gemini-extension.json"

\* this.errors.push / this.warnings.push under a condition
PushIf(cond, msg) == IF cond THEN << msg >> ELSE << >>

\* the errors and warnings a sub-check has pushed when it returns, or when it
\* throws
Checked(errors, warnings) == [errors |-> errors, warnings |-> warnings, threw |-> FALSE]
Thrown(errors, warnings) == [errors |-> errors, warnings |-> warnings, threw |-> TRUE]

\* _validateMarketplaceJSON; plugins "nonarray" is a value that is not an array
validateMarketplaceJSON(m) ==
    IF m.state = "unreadable" THEN Thrown(<< >>, << >>)
    ELSE IF m.state = "badjson"
    THEN Checked(<< "Invalid JSON in marketplace.json" >>, << >>)
    ELSE Checked(
           PushIf(~m.name, "marketplace.json missing required field: name")
           \o PushIf(~m.meta, "marketplace.json missing required field: metadata")
           \o (IF m.plugins \in {"none", "nonarray"}
               THEN << ErrNoPlugins >>
               ELSE IF m.plugins = "empty" THEN << >>
               ELSE PushIf(~m.pname, "Plugin at index 0 missing required field: name")
                    \o PushIf(~m.pdesc, "Plugin at index 0 missing required field: description")),
           PushIf(m.meta /\ ~m.metaDesc, "marketplace.json metadata should include description")
           \o PushIf(m.meta /\ ~m.version, "marketplace.json metadata should include version"))

\* "Check required frontmatter fields": the errors and the warnings
FrontmatterErrors(skill) ==
    (IF skill.name = "none" THEN << ErrNoName >>
     ELSE PushIf(~NamePattern(skill.name), ErrNamePattern)
          \o PushIf(NameTooLong(NameLength(skill.name)), ErrNameLength))
    \o (IF skill.desc = "none" THEN << ErrNoDescription >>
        ELSE PushIf(DescTooLong(DescLength(skill.desc)), ErrDescLength))
FrontmatterWarnings(skill) ==
    IF skill.desc = "none" THEN << >>
    ELSE PushIf(DescTooShort(DescLength(skill.desc)), WarnDescShort)

\* _validateClaude
validateClaude(dir) ==
    IF dir.skill.state = "absent" THEN Checked(<< ErrNoSkillFile >>, << >>)
    ELSE IF dir.skill.state = "unreadable" THEN Thrown(<< >>, << >>)
    ELSE IF dir.skill.state = "nofm" THEN Checked(<< ErrSkillNoFrontmatter >>, << >>)
    ELSE LET market == IF dir.market.state = "absent"
                       THEN Checked(<< >>, << WarnNoMarketplace >>)
                       ELSE validateMarketplaceJSON(dir.market)
         IN  [errors |-> FrontmatterErrors(dir.skill) \o market.errors,
              warnings |-> FrontmatterWarnings(dir.skill) \o market.warnings,
              threw |-> market.threw]

\* _validateGemini, "Check required fields" and "Validate MCP servers
\* configuration": the errors
ManifestErrors(manifest) ==
    PushIf(manifest.name = "none", "gemini-extension.json missing required field: name")
    \o PushIf(~manifest.version, "gemini-extension.json missing required field: version")
    \o PushIf(manifest.mcp = "nocmd", "MCP server missing required field: command")
\* "Validate name matches directory"
ManifestNameWarning(manifest, dirName) ==
    PushIf(manifest.name # "none" /\ NameString(manifest.name) # dirName,
           "Extension name should match directory name")
\* "Check for context file"
ContextWarning(context) == PushIf(~context.present, "Missing context file: GEMINI.md")

\* _validateGemini
validateGemini(dir, dirName) ==
    IF dir.manifest.state = "absent" THEN Checked(<< ErrNoManifestFile >>, << >>)
    ELSE IF dir.manifest.state = "unreadable" THEN Thrown(<< >>, << >>)
    ELSE IF dir.manifest.state = "badjson" THEN Checked(<< ErrManifestInvalid >>, << >>)
    ELSE Checked(ManifestErrors(dir.manifest),
                 ManifestNameWarning(dir.manifest, dirName) \o ContextWarning(dir.context))

\* the catch block of validate: this.errors.push(`Validation failed: ...`)
CatchErrorsDropped(errors, msg) == errors
CatchErrors(errors, msg) == Append(errors, msg)

\* platform === PLATFORM_TYPES.CLAUDE || platform === PLATFORM_TYPES.UNIVERSAL
ChecksClaudeUnlessGemini(platform) == platform # PLATFORM_GEMINI
ChecksClaude(platform) == platform \in {PLATFORM_CLAUDE, PLATFORM_UNIVERSAL}
\* platform === PLATFORM_TYPES.GEMINI || platform === PLATFORM_TYPES.UNIVERSAL
ChecksGemini(platform) == platform \in {PLATFORM_GEMINI, PLATFORM_UNIVERSAL}

\* validate
validate(dir, dirName, platform) ==
    LET none == Checked(<< >>, << >>)
        c == IF ChecksClaude(platform) THEN validateClaude(dir) ELSE none
        g == IF ~c.threw /\ ChecksGemini(platform)
             THEN validateGemini(dir, dirName) ELSE none
        errors == c.errors \o g.errors
        warnings == c.warnings \o g.warnings
    IN  IF c.threw \/ g.threw
        THEN [ran |-> TRUE, valid |-> FALSE,
              errors |-> CatchErrors(errors, ErrValidationThrew),
              warnings |-> warnings]
        ELSE [ran |-> TRUE, valid |-> Len(errors) = 0,
              errors |-> errors, warnings |-> warnings]

----------------------------------------------------------------------------
(* The documents the converters generate *)

ErrSkillMissing == "fs.readFile rejects: SKILL.md"
ErrNoFrontmatter == "SKILL.md missing YAML frontmatter"
ErrManifestMissing == "fs.readFile rejects: gemini-extension.json"
ErrManifestJSON == "Unexpected token in JSON"
ErrWrite == "write failed"
ErrYamlDump == "unacceptable kind of an object to dump [object Undefined]"
ErrUndefined == "Cannot read properties of undefined"

\* _extractClaudeMetadata: this.metadata.source; a marketplace.json that is
\* missing or does not parse leaves marketplace null
ClaudeSource(dir) ==
    [skill |-> dir.skill,
     market |-> IF dir.market.state = "ok" THEN dir.market ELSE NoMarketplace,
     manifest |-> NoManifest,
     content |-> dir.skill.body]

\* _extractGeminiMetadata: this.metadata.source; a missing context file
\* leaves content ''
GeminiSource(dir) ==
    [skill |-> NoSkill,
     market |-> NoMarketplace,
     manifest |-> dir.manifest,
     content |-> IF dir.context.present THEN dir.context.text ELSE EmptyStr]

\* _generateGeminiManifest: the manifest written, and metadata.warnings after
GeminiManifest(src, warnings) ==
    LET plugin == src.market.state = "ok" /\ src.market.plugins = "one"
        mcp == IF plugin THEN src.market.mcp ELSE "none"
        envVars == IF mcp # "none" THEN src.market.envVars ELSE 0
        excl == ManifestExcludeTools(src.skill.tools, warnings)
    IN  [manifest |-> ManifestFile("ok", src.skill.name, TRUE,
                                   ManifestDescription(src.skill.desc, plugin /\ src.market.pdesc),
                                   excl.field, mcp, envVars, envVars),
         warnings |-> excl.warnings]

\* _generateClaudeSkill: the SKILL.md written
ClaudeSkill(src) ==
    LET allowed == FrontmatterAllowedTools(src.manifest.excl)
    IN  SkillFile(src.manifest.name, src.manifest.desc,
                  IF allowed.present THEN ArrayTools(allowed.items) ELSE NoTools,
                  ClaudeSkillBody(src.content, src.manifest.settings, src.manifest.desc))

\* _generateMarketplaceJSON throws a TypeError in _extractKeywords when the
\* description is undefined
MarketplaceThrows(src) == src.manifest.desc = "none"

\* _generateMarketplaceJSON: the marketplace.json written
MarketplaceJSON(src) ==
    MarketplaceFile("ok", TRUE, TRUE, src.manifest.desc \notin {"none", "empty"}, TRUE,
                    "one", src.manifest.name # "none",
                    src.manifest.desc \notin {"none", "empty"},
                    src.manifest.mcp, src.manifest.envVars)

\* const path = await this._generate...(); result.files.push(path): the path
\* is pushed when the step has returned
PushFileAlways(files, path, returned) == Append(files, path)
PushFile(files, path, returned) == IF returned THEN Append(files, path) ELSE files

----------------------------------------------------------------------------
(* Spec: one call of SkillPorter.convert on a source directory *)

\* the target platform strings a caller passes
Targets == {"claude", "gemini", "universal", "vscode"}

MsgUniversal == "Already a universal skill/extension - no conversion needed"
MsgSamePlatform == "Already a skill/extension of the target platform - no conversion needed"
ErrNoDirectory == "Detection failed: Directory not found"
ErrDetectRead == "Detection failed: EISDIR: illegal operation on a directory, read"

\* the message detect throws on a directory
detectError(dir) == IF ~dir.exists THEN ErrNoDirectory ELSE ErrDetectRead
ErrUnknownPlatform ==
    "Unable to detect platform type. Ensure directory contains valid skill/extension files."
ErrInvalidTarget == "Invalid target platform. Must be 'claude' or 'gemini'"
MsgAlreadyUniversal == "Already a universal skill/extension"
MsgMadeUniversal == "Successfully created universal skill/extension"
ErrUnknownPlatformShort == "Unable to detect platform type"

\* the SKILL.md files of a source directory
SrcTools == {NoTools, ArrayTools(SubSeq(AllTools, 1, 3)), ArrayTools(SubSeq(AllTools, 1, 10))}
SrcBody == << Blank, Text, Blank >>
SrcSkills ==
    {NoSkill, NoFrontmatterSkill}
    \cup {SkillFile(n, d, t, SrcBody) : n \in NameKinds, d \in DescKinds, t \in SrcTools}

\* the marketplace.json files of a source directory
SrcMarkets ==
    {NoMarketplace, BadMarketplace,
     MarketplaceFile("ok", TRUE, FALSE, FALSE, FALSE, "none", FALSE, FALSE, "none", 0)}
    \cup {MarketplaceFile("ok", TRUE, TRUE, TRUE, v, "one", TRUE, pd, "none", 0) :
              v \in BOOLEAN, pd \in BOOLEAN}
    \cup {MarketplaceFile("ok", TRUE, TRUE, TRUE, TRUE, "one", TRUE, TRUE, m, e) :
              m \in {"ok", "nocmd"}, e \in 0..MaxSettings}

\* the gemini-extension.json files of a source directory
SrcExcludes == {NoList, SomeList(<< >>), SomeList(<< "Bash", "Edit" >>)}
SrcManifests ==
    {NoManifest, BadManifest}
    \cup {ManifestFile("ok", n, v, d, x, "none", 0, 0) :
              n \in NameKinds, v \in BOOLEAN, d \in DescKinds, x \in SrcExcludes}
    \cup {ManifestFile("ok", "ok", TRUE, "ok", NoList, m, e, e) :
              m \in {"ok", "nocmd"}, e \in 0..MaxSettings}

\* the GEMINI.md files of a source directory
SrcContexts == {NoContext, ContextFile(EmptyStr), ContextFile(<< Text, Blank >>)}

\* the source directories: a Claude skill, a Gemini extension, or any mix of
\* the four files
SrcDirs ==
    {MissingDir}
    \cup {Dir(TRUE, s, m, NoManifest, NoContext, sh) :
              s \in SrcSkills, m \in SrcMarkets, sh \in {"absent", "user"}}
    \cup {Dir(TRUE, NoSkill, NoMarketplace, m, c, sh) :
              m \in SrcManifests, c \in SrcContexts, sh \in {"absent", "user"}}
    \cup {Dir(TRUE, s, m, x, c, "absent") :
              s \in {NoSkill, NoFrontmatterSkill, UnreadableSkill,
                     SkillFile("ok", "ok", NoTools, SrcBody)},
              m \in {NoMarketplace, BadMarketplace, UnreadableMarketplace},
              x \in {NoManifest, BadManifest, UnreadableManifest,
                     ManifestFile("ok", "ok", TRUE, "ok", NoList, "none", 0, 0)},
              c \in {NoContext, ContextFile(<< Text, Blank >>)}}

\* the output directories other than the source directory
OutDirs == {MissingDir, EmptyDir}

Init ==
    /\ PermOff
    /\ DocOff
    /\ RaceOff
    /\ ShOff
    /\ SrvOff
    /\ YamlOff
    /\ SetOff
    /\ ValOff
    /\ \E s \in SrcDirs : \E o \in OutDirs :
           disk = [d \in Dirs |-> IF d = "src" THEN s ELSE o]
    /\ pc = "idle"
    /\ call = NoCall
    /\ detection = NoDetection
    /\ source = NoSource
    /\ metaWarnings = << >>
    /\ result = NoResult
    /\ thrown = ""

\* where SkillPorter.convert returns its result to: its caller, or
\* makeUniversal
ReturnPc == IF call.op = "makeUniversal" THEN "u_return" ELSE "done"

\* SkillPorter.convert(sourcePath, targetPlatform, {outputPath, validate})
Call ==
    /\ pc = "idle"
    /\ \E t \in Targets : \E o \in Dirs : \E v \in BOOLEAN :
           call' = [op |-> "convert", target |-> t, out |-> o, validate |-> v]
    /\ pc' = "detect"
    /\ UNCHANGED <<disk, detection, source, metaWarnings, result, thrown>>
    /\ UNCHANGED nonConvVars

\* SkillPorter.makeUniversal(sourcePath, {outputPath})
CallMakeUniversal ==
    /\ pc = "idle"
    /\ \E o \in Dirs :
           call' = [op |-> "makeUniversal", target |-> "none", out |-> o, validate |-> TRUE]
    /\ pc' = "u_detect"
    /\ UNCHANGED <<disk, detection, source, metaWarnings, result, thrown>>
    /\ UNCHANGED nonConvVars

\* makeUniversal: "Detect current platform", and the call of convert for the
\* other platform with validate: true
MakeUniversalDetect ==
    /\ pc = "u_detect"
    /\ IF detectThrows(disk["src"])
       THEN /\ thrown' = detectError(disk["src"])
            /\ pc' = "thrown"
            /\ UNCHANGED <<detection, result, call>>
       ELSE /\ detection' = detect(disk["src"])
            /\ IF detection'.platform = PLATFORM_UNIVERSAL
               THEN /\ result' = [NoResult EXCEPT !.success = TRUE,
                                                  !.message = MsgAlreadyUniversal,
                                                  !.platform = PLATFORM_UNIVERSAL]
                    /\ pc' = "done"
                    /\ UNCHANGED <<thrown, call>>
               ELSE IF detection'.platform = PLATFORM_UNKNOWN
               THEN /\ thrown' = ErrUnknownPlatformShort
                    /\ pc' = "thrown"
                    /\ UNCHANGED <<result, call>>
               ELSE /\ call' = [call EXCEPT !.target =
                                    IF detection'.platform = PLATFORM_CLAUDE
                                    THEN PLATFORM_GEMINI ELSE PLATFORM_CLAUDE]
                    /\ pc' = "detect"
                    /\ UNCHANGED <<result, thrown>>
    /\ UNCHANGED <<disk, source, metaWarnings>>
    /\ UNCHANGED nonConvVars

\* makeUniversal: the result of convert is returned, marked universal when
\* it is a success
MakeUniversalReturn ==
    /\ pc = "u_return"
    /\ result' = IF result.success
                 THEN [result EXCEPT !.platform = PLATFORM_UNIVERSAL,
                                     !.message = MsgMadeUniversal]
                 ELSE result
    /\ pc' = "done"
    /\ UNCHANGED <<disk, call, detection, source, metaWarnings, thrown>>
    /\ UNCHANGED nonConvVars

\* "Step 1: Detect source platform"
Detect ==
    /\ pc = "detect"
    /\ IF ~detectThrows(disk["src"])
       THEN /\ detection' = detect(disk["src"])
            /\ pc' = "route"
            /\ UNCHANGED thrown
       ELSE /\ thrown' = detectError(disk["src"])
            /\ pc' = "thrown"
            /\ UNCHANGED detection
    /\ UNCHANGED <<disk, call, source, metaWarnings, result>>
    /\ UNCHANGED nonConvVars

\* "Step 2: Check if conversion is needed", and the choice of the converter
Route ==
    /\ pc = "route"
    /\ IF detection.platform = PLATFORM_UNKNOWN
       THEN /\ thrown' = ErrUnknownPlatform
            /\ pc' = "thrown"
            /\ UNCHANGED result
       ELSE IF detection.platform = PLATFORM_UNIVERSAL
       THEN /\ result' = [NoResult EXCEPT !.success = TRUE, !.message = MsgUniversal,
                                           !.platform = PLATFORM_UNIVERSAL]
            /\ pc' = ReturnPc
            /\ UNCHANGED thrown
       ELSE IF detection.platform = call.target
       THEN /\ result' = [NoResult EXCEPT !.success = TRUE, !.message = MsgSamePlatform,
                                           !.platform = detection.platform]
            /\ pc' = ReturnPc
            /\ UNCHANGED thrown
       ELSE IF call.target = PLATFORM_GEMINI
       THEN /\ result' = NoResult
            /\ pc' = "c2g_extract"
            /\ UNCHANGED thrown
       ELSE IF call.target = PLATFORM_CLAUDE
       THEN /\ result' = NoResult
            /\ pc' = "g2c_extract"
            /\ UNCHANGED thrown
       ELSE /\ thrown' = ErrInvalidTarget
            /\ pc' = "thrown"
            /\ UNCHANGED result
    /\ UNCHANGED <<disk, call, detection, source, metaWarnings>>
    /\ UNCHANGED nonConvVars

\* the catch block of a converter's convert(): a step that throws before it
\* returns leaves result.files as it is
Caught(msg, path) ==
    /\ result' = [result EXCEPT !.success = FALSE,
                                !.errors = Append(@, msg),
                                !.files = PushFile(@, path, FALSE)]
    /\ pc' = "converted"

\* a step of a converter that has written its file and returned path
Returned(path, next) ==
    /\ result' = [result EXCEPT !.files = PushFile(@, path, TRUE)]
    /\ pc' = next

\* fs.writeFile into the output directory fulfils when the directory exists
\* and the file system takes the write
Writable(fault) == disk[call.out].exists /\ ~fault

\* ClaudeToGeminiConverter "Step 1: Extract metadata from Claude skill"
C2GExtract ==
    /\ pc = "c2g_extract"
    /\ LET dir == disk["src"]
       IN  IF dir.skill.state \in {"absent", "unreadable"}
           THEN Caught(ErrSkillMissing, Path(call.out, "gemini-extension.json")) /\ UNCHANGED source
           ELSE IF dir.skill.state = "nofm"
           THEN Caught(ErrNoFrontmatter, Path(call.out, "gemini-extension.json")) /\ UNCHANGED source
           ELSE /\ source' = ClaudeSource(dir)
                /\ pc' = "c2g_manifest"
                /\ UNCHANGED result
    /\ UNCHANGED <<disk, call, detection, metaWarnings, thrown>>
    /\ UNCHANGED nonConvVars

\* "Step 2: Generate gemini-extension.json"
C2GManifest ==
    /\ pc = "c2g_manifest"
    /\ LET g == GeminiManifest(source, metaWarnings)
           path == Path(call.out, "gemini-extension.json")
       IN  /\ metaWarnings' = g.warnings
           /\ \E fault \in BOOLEAN :
                  IF Writable(fault)
                  THEN /\ disk' = [disk EXCEPT ![call.out].manifest = g.manifest]
                       /\ Returned(path, "c2g_context")
                  ELSE /\ Caught(ErrWrite, path)
                       /\ UNCHANGED disk
    /\ UNCHANGED <<call, detection, source, thrown>>
    /\ UNCHANGED nonConvVars

\* "Step 3: Generate GEMINI.md from SKILL.md"
C2GContext ==
    /\ pc = "c2g_context"
    /\ LET path == Path(call.out, "GEMINI.md")
       IN  \E fault \in BOOLEAN :
               IF Writable(fault)
               THEN /\ disk' = [disk EXCEPT ![call.out].context =
                                    ContextFile(GeminiContext(source.content, source.skill.desc))]
                    /\ Returned(path, "shared")
               ELSE /\ Caught(ErrWrite, path)
                    /\ UNCHANGED disk
    /\ UNCHANGED <<call, detection, source, metaWarnings, thrown>>
    /\ UNCHANGED nonConvVars

\* GeminiToClaudeConverter "Step 1: Extract metadata from Gemini extension"
G2CExtract ==
    /\ pc = "g2c_extract"
    /\ LET dir == disk["src"]
       IN  IF dir.manifest.state \in {"absent", "unreadable"}
           THEN Caught(ErrManifestMissing, Path(call.out, "SKILL.md")) /\ UNCHANGED source
           ELSE IF dir.manifest.state = "badjson"
           THEN Caught(ErrManifestJSON, Path(call.out, "SKILL.md")) /\ UNCHANGED source
           ELSE /\ source' = GeminiSource(dir)
                /\ pc' = "g2c_skill"
                /\ UNCHANGED result
    /\ UNCHANGED <<disk, call, detection, metaWarnings, thrown>>
    /\ UNCHANGED nonConvVars

\* "Step 2: Generate SKILL.md"
G2CSkill ==
    /\ pc = "g2c_skill"
    /\ LET path == Path(call.out, "SKILL.md")
       IN  \/ /\ YamlDumpMayThrow(source.manifest.name, source.manifest.desc)
              /\ Caught(ErrYamlDump, path)
              /\ UNCHANGED disk
           \/ /\ ClaudeSkillThrows(source.content, source.manifest.desc)
              /\ Caught(ErrUndefined, path)
              /\ UNCHANGED disk
           \/ /\ ~ClaudeSkillThrows(source.content, source.manifest.desc)
              /\ \E fault \in BOOLEAN :
                     IF Writable(fault)
                     THEN /\ disk' = [disk EXCEPT ![call.out].skill = ClaudeSkill(source)]
                          /\ Returned(path, "g2c_market")
                     ELSE /\ Caught(ErrWrite, path)
                          /\ UNCHANGED disk
    /\ UNCHANGED <<call, detection, source, metaWarnings, thrown>>
    /\ UNCHANGED nonConvVars

\* "Step 3: Generate .claude-plugin/marketplace.json"
G2CMarket ==
    /\ pc = "g2c_market"
    /\ LET path == Path(call.out, ".claude-plugin/marketplace.json")
       IN  IF MarketplaceThrows(source)
           THEN /\ Caught(ErrUndefined, path)
                /\ UNCHANGED disk
           ELSE \E fault \in BOOLEAN :
                    IF Writable(fault)
                    THEN /\ disk' = [disk EXCEPT ![call.out].market = MarketplaceJSON(source)]
                         /\ Returned(path, "shared")
                    ELSE /\ Caught(ErrWrite, path)
                         /\ UNCHANGED disk
    /\ UNCHANGED <<call, detection, source, metaWarnings, thrown>>
    /\ UNCHANGED nonConvVars

\* "Step 4: Transform MCP server configuration", which changes nothing, and
\* "Step 5: Create shared directory structure if it doesn't exist"; then
\* result.success = true and result.metadata = this.metadata
EnsureShared ==
    /\ pc = "shared"
    /\ IF disk[call.out].shared # "absent"
       THEN /\ result' = [result EXCEPT !.success = TRUE, !.metadata = TRUE]
            /\ UNCHANGED disk
       ELSE \E fault \in BOOLEAN :
                IF ~fault
                THEN /\ disk' = [disk EXCEPT ![call.out].exists = TRUE,
                                             ![call.out].shared = "placeholders"]
                     /\ result' = [result EXCEPT !.success = TRUE, !.metadata = TRUE]
                ELSE /\ disk' = [disk EXCEPT ![call.out].exists = TRUE,
                                             ![call.out].shared = "partial"]
                     /\ result' = [result EXCEPT !.success = FALSE,
                                                 !.errors = Append(@, ErrWrite)]
    /\ pc' = "converted"
    /\ UNCHANGED <<call, detection, source, metaWarnings, thrown>>
    /\ UNCHANGED nonConvVars

\* if (validate && result.success)
ShouldValidateAlways(validateOption, success) == success
ShouldValidate(validateOption, success) == validateOption /\ success

\* "Step 4: Validate if requested", and the return of the result
Validate ==
    /\ pc = "converted"
    /\ IF ShouldValidate(call.validate, result.success)
       THEN LET validation == validate(disk[call.out], BaseName(call.out), call.target)
            IN  result' =
                    IF validation.valid
                    THEN [result EXCEPT !.validation = validation]
                    ELSE [result EXCEPT !.validation = validation,
                                        !.success = FALSE,
                                        !.errors = @ \o << "Validation failed" >>
                                                     \o validation.errors]
       ELSE UNCHANGED result
    /\ pc' = ReturnPc
    /\ UNCHANGED <<disk, call, detection, source, metaWarnings, thrown>>
    /\ UNCHANGED nonConvVars

Next ==
    \/ Call \/ Detect \/ Route
    \/ CallMakeUniversal \/ MakeUniversalDetect \/ MakeUniversalReturn
    \/ C2GExtract \/ C2GManifest \/ C2GContext
    \/ G2CExtract \/ G2CSkill \/ G2CMarket
    \/ EnsureShared \/ Validate

Spec == Init /\ [][Next]_vars

----------------------------------------------------------------------------
(* Settings inference.  A variable name and an env value are held as the    *)
(* sequence of their characters.                                             *)

UpperLetters ==
    << "A", "B", "C", "D", "E", "F", "G", "H", "I", "J", "K", "L", "M", "N", "O", "P", "Q", "R", "S", "T", "U", "V", "W", "X", "Y", "Z" >>
LowerLetters ==
    << "a", "b", "c", "d", "e", "f", "g", "h", "i", "j", "k", "l", "m", "n", "o", "p", "q", "r", "s", "t", "u", "v", "w", "x", "y", "z" >>

\* String.prototype.toLowerCase, of a character and of a string
LowerChar(c) ==
    IF \E i \in 1..26 : UpperLetters[i] = c
    THEN LowerLetters[CHOOSE i \in 1..26 : UpperLetters[i] = c]
    ELSE c
ToLowerCase(str) == [i \in 1..Len(str) |-> LowerChar(str[i])]

\* String.prototype.includes
StrIncludes(str, sub) ==
    \E i \in 1..(Len(str) - Len(sub) + 1) : SubSeq(str, i, i + Len(sub) - 1) = sub

Max(S) == CHOOSE x \in S : \A y \in S : x >= y

\* an env value: a string, or a value of another type
StringValue(chars) == [string |-> TRUE, chars |-> chars]
OtherValue == [string |-> FALSE, chars |-> << >>]

\* the positions where /\$\{(.+)\}/ can match: "${", one character or more,
\* and a "}" after them
PlaceholderStarts(str) ==
    {i \in 1..(Len(str) - 3) :
        /\ str[i] = "$" /\ str[i + 1] = "{"
        /\ \E j \in (i + 3)..Len(str) : str[j] = "}"}

\* typeof value === 'string' && value.match(/\$\{(.+)\}/)
MatchesPlaceholder(value) == value.string /\ PlaceholderStarts(value.chars) # {}

\* value.match(/\$\{(.+)\}/)[1]: the match starts at the first position where
\* one is possible, and the greedy .+ runs to the last "}" of the string
VarName(str) ==
    LET i == Min(PlaceholderStarts(str))
        j == Max({k \in (i + 3)..Len(str) : str[k] = "}"})
    IN  SubSeq(str, i + 2, j - 1)

\* const descriptions of _inferDescription
Descriptions ==
    << [name |-> << "D", "B", "_", "H", "O", "S", "T" >>,
        text |-> << "Database server hostname" >>],
       [name |-> << "D", "B", "_", "P", "O", "R", "T" >>,
        text |-> << "Database server port" >>],
       [name |-> << "D", "B", "_", "N", "A", "M", "E" >>,
        text |-> << "Database name" >>],
       [name |-> << "D", "B", "_", "U", "S", "E", "R" >>,
        text |-> << "Database username" >>],
       [name |-> << "D", "B", "_", "P", "A", "S", "S", "W", "O", "R", "D" >>,
        text |-> << "Database password" >>],
       [name |-> << "A", "P", "I", "_", "K", "E", "Y" >>,
        text |-> << "API authentication key" >>],
       [name |-> << "A", "P", "I", "_", "S", "E", "C", "R", "E", "T" >>,
        text |-> << "API secret" >>],
       [name |-> << "A", "P", "I", "_", "U", "R", "L" >>,
        text |-> << "API endpoint URL" >>],
       [name |-> << "H", "O", "S", "T" >>,
        text |-> << "Server hostname" >>],
       [name |-> << "P", "O", "R", "T" >>,
        text |-> << "Server port" >>] >>

\* const defaults of _inferDefaults
Defaults ==
    << [name |-> << "D", "B", "_", "H", "O", "S", "T" >>, default |-> "localhost"],
       [name |-> << "D", "B", "_", "P", "O", "R", "T" >>, default |-> "5432"],
       [name |-> << "H", "O", "S", "T" >>, default |-> "localhost"],
       [name |-> << "P", "O", "R", "T" >>, default |-> "8080"],
       [name |-> << "A", "P", "I", "_", "U", "R", "L" >>, default |-> "https://api.example.com"] >>

\* _inferDescription: the entry of the table, or the words of the name between
\* its underscores, each with its first character as it is and the rest in
\* lower case, joined by spaces
inferDescription(varName) ==
    IF \E i \in 1..Len(Descriptions) : Descriptions[i].name = varName
    THEN Descriptions[CHOOSE i \in 1..Len(Descriptions) : Descriptions[i].name = varName].text
    ELSE [k \in 1..Len(varName) |->
             IF varName[k] = "_" THEN " "
             ELSE IF k = 1 \/ varName[k - 1] = "_" THEN varName[k]
             ELSE LowerChar(varName[k])]

\* _inferDefaults: the default of the table, or "" for null
inferDefaults(varName) ==
    IF \E i \in 1..Len(Defaults) : Defaults[i].name = varName
    THEN Defaults[CHOOSE i \in 1..Len(Defaults) : Defaults[i].name = varName].default
    ELSE ""

\* "Detect if it's a secret/password"
SecretWords ==
    {<< "p", "a", "s", "s", "w", "o", "r", "d" >>, << "s", "e", "c", "r", "e", "t" >>, << "t", "o", "k", "e", "n" >>, << "k", "e", "y" >>}
IsSecretCaseSensitive(varName) == \E w \in SecretWords : StrIncludes(varName, w)
IsSecret(varName) == \E w \in SecretWords : StrIncludes(ToLowerCase(varName), w)

\* the setting of a variable name; secret, required FALSE and default ""
\* stand for a key that is not set
Setting(varName) ==
    [name |-> varName,
     description |-> inferDescription(varName),
     secret |-> IsSecret(varName),
     required |-> IsSecret(varName),
     default |-> inferDefaults(varName)]

\* the env values of the server configs, in the order of Object.entries of
\* the map and of each env; a config without env gives none
RECURSIVE EnvValues(_)
EnvValues(servers) ==
    IF Len(servers) = 0 THEN << >>
    ELSE (IF servers[1].hasEnv THEN servers[1].env ELSE << >>) \o EnvValues(Tail(servers))

\* seenVars.has(varName)
Seen(list, varName) == \E i \in 1..Len(list) : list[i].name = varName

\* the loop of _inferSettingsFromMCPConfig over the values left, with the
\* settings pushed so far
RECURSIVE InferLoop(_, _)
InferLoop(values, list) ==
    IF Len(values) = 0 THEN list
    ELSE LET value == values[1]
         IN  IF MatchesPlaceholder(value) /\ ~Seen(list, VarName(value.chars))
             THEN InferLoop(Tail(values), Append(list, Setting(VarName(value.chars))))
             ELSE InferLoop(Tail(values), list)

\* _inferSettingsFromMCPConfig
inferSettingsFromMCPConfig(servers) == InferLoop(EnvValues(servers), << >>)

----------------------------------------------------------------------------
(* SpecSet: settings inference on the server configs of a marketplace.json *)

\* the variable names the env values refer to
API_KEY == << "A", "P", "I", "_", "K", "E", "Y" >>
DB_PORT == << "D", "B", "_", "P", "O", "R", "T" >>
LOG_LEVEL == << "L", "O", "G", "_", "L", "E", "V", "E", "L" >>
Auth_Token == << "A", "u", "t", "h", "_", "T", "o", "k", "e", "n" >>
PASS == << "P", "A", "S", "S" >>
VarNames == {API_KEY, DB_PORT, LOG_LEVEL, Auth_Token, PASS}

\* "${NAME}"
Placeholder(name) == << "$", "{" >> \o name \o << "}" >>

\* the env values: a placeholder alone, one inside other text, two in one
\* value, text without a placeholder, "${}", and a number
EnvValueSet ==
    {StringValue(Placeholder(n)) : n \in VarNames}
    \cup {StringValue(<< "h", ":" >> \o Placeholder(API_KEY) \o << "/", "v" >>),
          StringValue(Placeholder(API_KEY) \o << ":" >> \o Placeholder(DB_PORT)),
          StringValue(Placeholder(API_KEY) \o << ":" >> \o Placeholder(LOG_LEVEL)),
          StringValue(<< "p", "l", "a", "i", "n" >>),
          StringValue(<< "$", "{", "}" >>),
          OtherValue}

\* a server config with its env map, or without one
ServerConfig(env) == [hasEnv |-> TRUE, env |-> env]
NoEnvConfig == [hasEnv |-> FALSE, env |-> << >>]

SetInit ==
    /\ PermOff
    /\ DocOff
    /\ RaceOff
    /\ ShOff
    /\ SrvOff
    /\ YamlOff
    /\ ConvOff
    /\ ValOff
    /\ setPc = "input"
    /\ inferred = << >>
    /\ \E n \in 0..MaxEnvEntries : \E vals \in [1..n -> EnvValueSet] :
       \E cut \in 0..n : \E shape \in {"one", "two", "noenv"} :
           mcpServers =
               IF shape = "one" THEN << ServerConfig(vals) >>
               ELSE IF shape = "two"
               THEN << ServerConfig(SubSeq(vals, 1, cut)), ServerConfig(SubSeq(vals, cut + 1, n)) >>
               ELSE << ServerConfig(SubSeq(vals, 1, cut)), NoEnvConfig,
                       ServerConfig(SubSeq(vals, cut + 1, n)) >>

\* "Generate settings from MCP server environment variables"
InferSettings ==
    /\ setPc = "input"
    /\ inferred' = inferSettingsFromMCPConfig(mcpServers)
    /\ setPc' = "inferred"
    /\ UNCHANGED mcpServers
    /\ UNCHANGED nonSetVars

SetNext == InferSettings

SpecSet == SetInit /\ [][SetNext]_vars

----------------------------------------------------------------------------
(* SpecVal: one call of Validator.validate on a directory *)

\* the names and the descriptions of the frontmatters validated
ValNameKinds == {"ok", "upper", "none", "blank", "len64", "len65"}
ValDescKinds ==
    {"ok", "short", "empty", "none", "blank", "one",
     "len49", "len50", "len1024", "len1025", "len1100"}

\* the SKILL.md files validated
ValSkills ==
    {NoSkill, NoFrontmatterSkill, UnreadableSkill}
    \cup {SkillFile(n, "ok", NoTools, SrcBody) : n \in ValNameKinds}
    \cup {SkillFile(n, "short", NoTools, SrcBody) : n \in {"none", "upper"}}
    \cup {SkillFile("ok", d, NoTools, SrcBody) : d \in ValDescKinds}

\* the marketplace.json files validated
ValMarkets ==
    {NoMarketplace, BadMarketplace, UnreadableMarketplace}
    \cup {MarketplaceFile("ok", n, m, m, m, p, FALSE, FALSE, "none", 0) :
              n \in BOOLEAN, m \in BOOLEAN, p \in {"none", "nonarray", "empty"}}
    \cup {MarketplaceFile("ok", TRUE, TRUE, md, v, "one", pn, pd, "none", 0) :
              md \in BOOLEAN, v \in BOOLEAN, pn \in BOOLEAN, pd \in BOOLEAN}

\* the gemini-extension.json files validated
ValManifests ==
    {NoManifest, BadManifest, UnreadableManifest}
    \cup {ManifestFile("ok", n, v, "ok", NoList, m, 0, 0) :
              n \in NameKinds, v \in BOOLEAN, m \in {"none", "ok", "nocmd"}}

\* the platform arguments of Validator.validate; "vscode" is a platform the
\* tool does not know
ValPlatforms ==
    {PLATFORM_CLAUDE, PLATFORM_GEMINI, PLATFORM_UNIVERSAL, PLATFORM_UNKNOWN, "vscode"}
\* SkillPorter.validate(dirPath) without a platform
AutoDetect == "auto"

ValInit ==
    /\ PermOff
    /\ DocOff
    /\ RaceOff
    /\ ShOff
    /\ SrvOff
    /\ YamlOff
    /\ ConvOff
    /\ SetOff
    /\ valPc = "input"
    /\ valResult = NoValidation
    /\ valPlatform \in ValPlatforms \cup {AutoDetect}
    /\ \E s \in ValSkills : \E m \in ValMarkets : \E x \in ValManifests :
       \E c \in {NoContext, ContextFile(<< Text, Blank >>)} :
           valDir = Dir(TRUE, s, m, x, c, "absent")

\* Validator.validate(dirPath, platform), also as SkillPorter.validate calls
\* it with the platform it is given
ValidateDir ==
    /\ valPc = "input"
    /\ valPlatform # AutoDetect
    /\ valResult' = validate(valDir, BaseName("src"), valPlatform)
    /\ valPc' = "validated"
    /\ UNCHANGED <<valDir, valPlatform>>
    /\ UNCHANGED nonValVars

\* SkillPorter.validate(dirPath): "Auto-detect platform if not specified";
\* valPlatform becomes the platform passed to Validator.validate
ValidateAuto ==
    /\ valPc = "input"
    /\ valPlatform = AutoDetect
    /\ IF detectThrows(valDir)
       THEN /\ valPc' = "thrown"
            /\ UNCHANGED <<valPlatform, valResult>>
       ELSE /\ valPlatform' = detect(valDir).platform
            /\ valResult' = validate(valDir, BaseName("src"), valPlatform')
            /\ valPc' = "validated"
    /\ UNCHANGED valDir
    /\ UNCHANGED nonValVars

ValNext == ValidateDir \/ ValidateAuto

SpecVal == ValInit /\ [][ValNext]_vars

----------------------------------------------------------------------------
(* SpecRace: validate calls on one Validator.  The Validator keeps the      *)
(* arrays of the call in this.errors and this.warnings; validate begins by  *)
(* assigning two new arrays to them, every check pushes onto the arrays     *)
(* they refer to at the time of the push, and the result returned holds     *)
(* the arrays they refer to at the time of the return.  A call gives way to *)
(* the other calls at each await: _fileExists, fs.readFile, and the return  *)
(* of an async sub-check.                                                   *)

\* the directories validated
RaceDirs ==
    {EmptyDir,
     Dir(TRUE, SkillFile("upper", "short", NoTools, SrcBody),
         MarketplaceFile("ok", TRUE, TRUE, TRUE, TRUE, "none", FALSE, FALSE, "none", 0),
         ManifestFile("ok", "upper", FALSE, "ok", NoList, "none", 0, 0), NoContext, "absent"),
     Dir(TRUE, SkillFile("ok", "ok", NoTools, SrcBody), UnreadableMarketplace,
         UnreadableManifest, NoContext, "absent")}

\* the platform arguments
RacePlatforms == {PLATFORM_CLAUDE, PLATFORM_GEMINI, PLATFORM_UNIVERSAL}

NoArrays == [errors |-> << >>, warnings |-> << >>]
NoRaceResult == [returned |-> FALSE, valid |-> FALSE, arrays |-> 0]

\* constructor(): this.errors = []; this.warnings = []
RaceInit ==
    /\ YamlOff
    /\ ShOff
    /\ SrvOff
    /\ PermOff
    /\ DocOff
    /\ ConvOff
    /\ SetOff
    /\ ValOff
    /\ \E n \in 1..MaxCalls :
           raceCalls \in [1..n -> [pc : {"idle"}, dir : RaceDirs, platform : RacePlatforms,
                                   result : {NoRaceResult}]]
    /\ raceHeap = << NoArrays >>
    /\ raceThis = 1

\* this.errors.push(...) and this.warnings.push(...) of one run between two
\* awaits
RacePush(errors, warnings) ==
    raceHeap' = [raceHeap EXCEPT ![raceThis] =
                     [errors |-> @.errors \o errors, warnings |-> @.warnings \o warnings]]

\* the call moves to its next await
RaceGoto(i, next) == raceCalls' = [raceCalls EXCEPT ![i].pc = next]

\* where validate goes on when _validateClaude has returned
AfterClaude(platform) ==
    IF platform = PLATFORM_UNIVERSAL THEN "manifest_exists" ELSE "return"

\* validate: this.errors = []; this.warnings = []; and the first _fileExists
\* of the sub-check of the platform
RaceStart ==
    \E i \in DOMAIN raceCalls :
        /\ raceCalls[i].pc = "idle"
        /\ raceHeap' = Append(raceHeap, NoArrays)
        /\ raceThis' = Len(raceHeap) + 1
        /\ RaceGoto(i, IF raceCalls[i].platform = PLATFORM_GEMINI
                       THEN "manifest_exists" ELSE "skill_exists")
        /\ UNCHANGED nonRaceVars

\* _validateClaude: "Check for SKILL.md"
RaceSkillExists ==
    \E i \in DOMAIN raceCalls :
        /\ raceCalls[i].pc = "skill_exists"
        /\ IF raceCalls[i].dir.skill.state = "absent"
           THEN /\ RacePush(<< ErrNoSkillFile >>, << >>)
                /\ RaceGoto(i, AfterClaude(raceCalls[i].platform))
           ELSE /\ RaceGoto(i, "skill_read")
                /\ UNCHANGED raceHeap
        /\ UNCHANGED raceThis
        /\ UNCHANGED nonRaceVars

\* _validateClaude: "Validate SKILL.md frontmatter", up to the _fileExists
\* of marketplace.json
RaceSkillRead ==
    \E i \in DOMAIN raceCalls :
        /\ raceCalls[i].pc = "skill_read"
        /\ LET skill == raceCalls[i].dir.skill
           IN  IF skill.state = "unreadable"
               THEN /\ RaceGoto(i, "catch")
                    /\ UNCHANGED raceHeap
               ELSE IF skill.state = "nofm"
               THEN /\ RacePush(<< ErrSkillNoFrontmatter >>, << >>)
                    /\ RaceGoto(i, AfterClaude(raceCalls[i].platform))
               ELSE /\ RacePush(FrontmatterErrors(skill), FrontmatterWarnings(skill))
                    /\ RaceGoto(i, "market_exists")
        /\ UNCHANGED raceThis
        /\ UNCHANGED nonRaceVars

\* _validateClaude: "Check for marketplace.json (optional but recommended)"
RaceMarketExists ==
    \E i \in DOMAIN raceCalls :
        /\ raceCalls[i].pc = "market_exists"
        /\ IF raceCalls[i].dir.market.state = "absent"
           THEN /\ RacePush(<< >>, << WarnNoMarketplace >>)
                /\ RaceGoto(i, AfterClaude(raceCalls[i].platform))
           ELSE /\ RaceGoto(i, "market_read")
                /\ UNCHANGED raceHeap
        /\ UNCHANGED raceThis
        /\ UNCHANGED nonRaceVars

\* _validateMarketplaceJSON, after its fs.readFile
RaceMarketRead ==
    \E i \in DOMAIN raceCalls :
        /\ raceCalls[i].pc = "market_read"
        /\ LET market == validateMarketplaceJSON(raceCalls[i].dir.market)
           IN  IF market.threw
               THEN /\ RaceGoto(i, "catch")
                    /\ UNCHANGED raceHeap
               ELSE /\ RacePush(market.errors, market.warnings)
                    /\ RaceGoto(i, AfterClaude(raceCalls[i].platform))
        /\ UNCHANGED raceThis
        /\ UNCHANGED nonRaceVars

\* _validateGemini: "Check for gemini-extension.json"
RaceManifestExists ==
    \E i \in DOMAIN raceCalls :
        /\ raceCalls[i].pc = "manifest_exists"
        /\ IF raceCalls[i].dir.manifest.state = "absent"
           THEN /\ RacePush(<< ErrNoManifestFile >>, << >>)
                /\ RaceGoto(i, "return")
           ELSE /\ RaceGoto(i, "manifest_read")
                /\ UNCHANGED raceHeap
        /\ UNCHANGED raceThis
        /\ UNCHANGED nonRaceVars

\* _validateGemini: "Validate manifest JSON" and "Check required fields", up
\* to the _fileExists of the context file
RaceManifestRead ==
    \E i \in DOMAIN raceCalls :
        /\ raceCalls[i].pc = "manifest_read"
        /\ LET manifest == raceCalls[i].dir.manifest
           IN  IF manifest.state = "unreadable"
               THEN /\ RaceGoto(i, "catch")
                    /\ UNCHANGED raceHeap
               ELSE IF manifest.state = "badjson"
               THEN /\ RacePush(<< ErrManifestInvalid >>, << >>)
                    /\ RaceGoto(i, "return")
               ELSE /\ RacePush(ManifestErrors(manifest),
                                ManifestNameWarning(manifest, BaseName("src")))
                    /\ RaceGoto(i, "context_exists")
        /\ UNCHANGED raceThis
        /\ UNCHANGED nonRaceVars

\* _validateGemini: "Check for context file"
RaceContextExists ==
    \E i \in DOMAIN raceCalls :
        /\ raceCalls[i].pc = "context_exists"
        /\ RacePush(<< >>, ContextWarning(raceCalls[i].dir.context))
        /\ RaceGoto(i, "return")
        /\ UNCHANGED raceThis
        /\ UNCHANGED nonRaceVars

\* validate: return {valid: this.errors.length === 0, errors: this.errors,
\* warnings: this.warnings}
RaceReturn ==
    \E i \in DOMAIN raceCalls :
        /\ raceCalls[i].pc = "return"
        /\ raceCalls' = [raceCalls EXCEPT
               ![i].pc = "returned",
               ![i].result = [returned |-> TRUE,
                              valid |-> Len(raceHeap[raceThis].errors) = 0,
                              arrays |-> raceThis]]
        /\ UNCHANGED <<raceHeap, raceThis>>
        /\ UNCHANGED nonRaceVars

\* validate: the catch block
RaceCatch ==
    \E i \in DOMAIN raceCalls :
        /\ raceCalls[i].pc = "catch"
        /\ raceHeap' = [raceHeap EXCEPT ![raceThis].errors =
                            CatchErrors(@, ErrValidationThrew)]
        /\ raceCalls' = [raceCalls EXCEPT
               ![i].pc = "returned",
               ![i].result = [returned |-> TRUE, valid |-> FALSE, arrays |-> raceThis]]
        /\ UNCHANGED raceThis
        /\ UNCHANGED nonRaceVars

RaceNext ==
    \/ RaceStart
    \/ RaceSkillExists \/ RaceSkillRead \/ RaceMarketExists \/ RaceMarketRead
    \/ RaceManifestExists \/ RaceManifestRead \/ RaceContextExists
    \/ RaceReturn \/ RaceCatch

SpecRace == RaceInit /\ [][RaceNext]_vars

----------------------------------------------------------------------------
(* SpecShared: conversions made in turn into one output directory, and the  *)
(* directory shared/ in it.  _ensureSharedStructure is the same code in the *)
(* two converters.  A document of shared/ is "absent", "placeholder" (the   *)
(* text the converter writes) or "user" (any other text); between two       *)
(* conversions the user may change the directory.                           *)

DocStates == {"absent", "placeholder", "user"}

\* the states of shared/: it is missing, or it is there with its documents
SharedDirs ==
    {NoShared} \cup [exists : {TRUE}, reference : DocStates, examples : DocStates]

\* await fs.access(sharedDir) fulfils
AccessFulfilsNever(dir) == FALSE
AccessFulfils(dir) == dir.exists

ShInit ==
    /\ YamlOff
    /\ SrvOff
    /\ PermOff
    /\ DocOff
    /\ ConvOff
    /\ SetOff
    /\ ValOff
    /\ RaceOff
    /\ shPc = "idle"
    /\ shDir \in SharedDirs
    /\ shBefore = shDir
    /\ shRuns = 0
    /\ shSuccess = FALSE

\* convert(), steps 1 to 4: a step that throws ends the conversion in the
\* catch block, and _ensureSharedStructure is not called
ShConvert ==
    /\ shPc = "idle"
    /\ shRuns < MaxConversions
    /\ shRuns' = shRuns + 1
    /\ shBefore' = shDir
    /\ \E threw \in BOOLEAN :
           IF threw
           THEN shPc' = "returned" /\ shSuccess' = FALSE
           ELSE shPc' = "access" /\ UNCHANGED shSuccess
    /\ UNCHANGED shDir
    /\ UNCHANGED nonShVars

\* _ensureSharedStructure: await fs.access(sharedDir)
ShAccess ==
    /\ shPc = "access"
    /\ IF AccessFulfils(shDir)
       THEN shPc' = "returned" /\ shSuccess' = TRUE
       ELSE shPc' = "mkdir" /\ UNCHANGED shSuccess
    /\ UNCHANGED <<shDir, shBefore, shRuns>>
    /\ UNCHANGED nonShVars

\* a call of fs that rejects ends the conversion in the catch block of
\* convert()
ShRejected == shPc' = "returned" /\ shSuccess' = FALSE /\ UNCHANGED shDir

\* await fs.mkdir(sharedDir, {recursive: true}), which leaves a directory
\* that is there as it is
ShMkdir ==
    /\ shPc = "mkdir"
    /\ \E fault \in BOOLEAN :
           IF fault THEN ShRejected
           ELSE /\ shDir' = [shDir EXCEPT !.exists = TRUE]
                /\ shPc' = "reference"
                /\ UNCHANGED shSuccess
    /\ UNCHANGED <<shBefore, shRuns>>
    /\ UNCHANGED nonShVars

\* await fs.writeFile(path.join(sharedDir, 'reference.md'), ...)
ShWriteReference ==
    /\ shPc = "reference"
    /\ \E fault \in BOOLEAN :
           IF fault THEN ShRejected
           ELSE /\ shDir' = [shDir EXCEPT !.reference = "placeholder"]
                /\ shPc' = "examples"
                /\ UNCHANGED shSuccess
    /\ UNCHANGED <<shBefore, shRuns>>
    /\ UNCHANGED nonShVars

\* await fs.writeFile(path.join(sharedDir, 'examples.md'), ...)
ShWriteExamples ==
    /\ shPc = "examples"
    /\ \E fault \in BOOLEAN :
           IF fault THEN ShRejected
           ELSE /\ shDir' = [shDir EXCEPT !.examples = "placeholder"]
                /\ shPc' = "returned"
                /\ shSuccess' = TRUE
    /\ UNCHANGED <<shBefore, shRuns>>
    /\ UNCHANGED nonShVars

\* the caller has the result; before the next conversion the user may write
\* or remove documents of shared/, or remove the directory
ShUser ==
    /\ shPc = "returned"
    /\ shPc' = "idle"
    /\ shDir' \in SharedDirs
    /\ UNCHANGED <<shBefore, shRuns, shSuccess>>
    /\ UNCHANGED nonShVars

ShNext ==
    \/ ShConvert \/ ShAccess \/ ShMkdir \/ ShWriteReference \/ ShWriteExamples
    \/ ShUser

SpecShared == ShInit /\ [][ShNext]_vars

----------------------------------------------------------------------------
(* SpecServers: the server configs of a marketplace.json through            *)
(* _transformMCPServers, and back through _transformMCPServersForClaude.    *)
(* An argument is held as the sequence of its characters.                   *)

\* "${extensionPath}/"
ExtensionPath ==
    << "$", "{", "e", "x", "t", "e", "n", "s", "i", "o", "n", "P", "a", "t", "h", "}", "/" >>

\* String.prototype.startsWith
StartsWith(str, prefix) ==
    Len(str) >= Len(prefix) /\ SubSeq(str, 1, Len(prefix)) = prefix

\* arg.match(/^[a-z]/i)
StartsWithLetter(arg) ==
    Len(arg) > 0 /\ \E i \in 1..26 : arg[1] \in {UpperLetters[i], LowerLetters[i]}

\* the function mapped over config.args by _transformMCPServers
RewriteArgAlways(arg) == ExtensionPath \o arg
RewriteArg(arg) ==
    IF StartsWithLetter(arg) /\ ~StartsWith(arg, << "$", "{" >>)
    THEN ExtensionPath \o arg
    ELSE arg

\* arg.replace(/\$\{extensionPath\}\//g, ''): every match is removed, from
\* left to right, and what is left is not searched again
RECURSIVE StripExtensionPath(_)
StripExtensionPath(arg) ==
    IF arg = << >> THEN << >>
    ELSE IF StartsWith(arg, ExtensionPath)
    THEN StripExtensionPath(SubSeq(arg, Len(ExtensionPath) + 1, Len(arg)))
    ELSE << Head(arg) >> \o StripExtensionPath(Tail(arg))

\* the value _transformMCPServers stores for an env value
TransformEnvValue(value) ==
    IF MatchesPlaceholder(value)
    THEN StringValue(Placeholder(VarName(value.chars)))
    ELSE value

\* a server config: {...config} keeps the command; args and env are
\* replaced when the config has them
Config(hasArgs, args, hasEnv, env) ==
    [command |-> "node", hasArgs |-> hasArgs, args |-> args, hasEnv |-> hasEnv, env |-> env]

\* _transformMCPServers
transformMCPServers(servers) ==
    [s \in DOMAIN servers |->
        [servers[s] EXCEPT
            !.args = [i \in DOMAIN @ |-> RewriteArg(@[i])],
            !.env = [i \in DOMAIN @ |-> TransformEnvValue(@[i])]]]

\* _transformMCPServersForClaude
transformMCPServersForClaude(servers) ==
    [s \in DOMAIN servers |->
        [servers[s] EXCEPT
            !.args = [i \in DOMAIN @ |-> StripExtensionPath(@[i])]]]

\* the arguments of the source configs: paths that start with a letter,
\* flags, paths that start with "." or "/", arguments that refer to a
\* variable, the empty string, and arguments that hold "${extensionPath}/"
ArgSet ==
    {<< "s", ".", "j", "s" >>, << "D", "i", "s", "t" >>, << "-", "y" >>,
     << ".", "/", "s" >>, << "/", "s" >>, << "$", "{", "H", "}", "/", "s" >>,
     << >>, << "$" >>, << "9", "s" >>,
     SubSeq(ExtensionPath, 3, 17) \o << "s" >>,
     ExtensionPath \o << "s" >>,
     << "s", "/" >> \o ExtensionPath \o << "s" >>,
     << "$", "{", "e" >> \o ExtensionPath \o << "x", "}", "/" >>}

\* the env maps of the source configs: none, an empty one, or one entry
SrvEnvs ==
    {[hasEnv |-> FALSE, env |-> << >>], [hasEnv |-> TRUE, env |-> << >>]}
    \cup {[hasEnv |-> TRUE, env |-> << v >>] : v \in EnvValueSet}

SrvInit ==
    /\ YamlOff
    /\ PermOff
    /\ DocOff
    /\ ConvOff
    /\ SetOff
    /\ ValOff
    /\ RaceOff
    /\ ShOff
    /\ srvPc = "source"
    /\ \E n \in 0..MaxArgs : \E args \in [1..n -> ArgSet] : \E e \in SrvEnvs :
       \E hasArgs \in {n > 0, TRUE} : \E second \in BOOLEAN :
           srvSource =
               << Config(hasArgs, args, e.hasEnv, e.env) >>
               \o (IF second THEN << Config(FALSE, << >>, FALSE, << >>) >> ELSE << >>)
    /\ srvGemini = << >>
    /\ srvAgain = << >>
    /\ srvClaude = << >>

\* _generateGeminiManifest: "Transform MCP servers configuration"
TransformMCPServers ==
    /\ srvPc = "source"
    /\ srvGemini' = transformMCPServers(srvSource)
    /\ srvPc' = "gemini"
    /\ UNCHANGED <<srvSource, srvAgain, srvClaude>>
    /\ UNCHANGED nonSrvVars

\* _transformMCPServers applied to the configs it returned
TransformMCPServersAgain ==
    /\ srvPc = "gemini"
    /\ srvAgain' = transformMCPServers(srvGemini)
    /\ srvPc' = "again"
    /\ UNCHANGED <<srvSource, srvGemini, srvClaude>>
    /\ UNCHANGED nonSrvVars

\* _generateMarketplaceJSON: "Add MCP servers configuration if present"
TransformMCPServersForClaude ==
    /\ srvPc = "gemini"
    /\ srvClaude' = transformMCPServersForClaude(srvGemini)
    /\ srvPc' = "claude"
    /\ UNCHANGED <<srvSource, srvGemini, srvAgain>>
    /\ UNCHANGED nonSrvVars

SrvNext ==
    TransformMCPServers \/ TransformMCPServersAgain \/ TransformMCPServersForClaude

SpecServers == SrvInit /\ [][SrvNext]_vars

----------------------------------------------------------------------------
(* SpecYaml: the extractor of the metadata block, which the detector and    *)
(* the validator each have.  A line is held as the sequence of its          *)
(* characters.  The object parsed is held as the list of its keys, in the   *)
(* order they were first assigned, and the list of their values: a string,  *)
(* or an array of strings.                                                  *)

\* String.prototype.trim, on the characters of a line
RECURSIVE TrimStart(_)
TrimStart(str) == IF str # << >> /\ Head(str) = " " THEN TrimStart(Tail(str)) ELSE str
TrimChars(str) == Reverse(TrimStart(Reverse(TrimStart(str))))

\* line.trim().startsWith('-')
IsArrayItem(line) == StartsWith(TrimChars(line), << "-" >>)

\* line.includes(':')
HasColon(line) == \E i \in 1..Len(line) : line[i] = ":"

\* const [key, ...valueParts] = line.split(':'): key.trim(), and
\* valueParts.join(':').trim()
FirstColon(line) == Min({i \in 1..Len(line) : line[i] = ":"})
KeyOf(line) == TrimChars(SubSeq(line, 1, FirstColon(line) - 1))
ValueOf(line) == TrimChars(SubSeq(line, FirstColon(line) + 1, Len(line)))

\* a value of the object parsed
Scalar(chars) == [array |-> FALSE, chars |-> chars, items |-> << >>]
Array(items) == [array |-> TRUE, chars |-> << >>, items |-> items]

\* the position of a key of the object parsed, 0 when it has no such key
KeyIndex(parsed, key) ==
    IF \E i \in 1..Len(parsed.keys) : parsed.keys[i] = key
    THEN CHOOSE i \in 1..Len(parsed.keys) : parsed.keys[i] = key
    ELSE 0

\* parsed[key] = value
Assign(parsed, key, value) ==
    LET i == KeyIndex(parsed, key)
    IN  IF i = 0
        THEN [keys |-> Append(parsed.keys, key), values |-> Append(parsed.values, value)]
        ELSE [parsed EXCEPT !.values[i] = value]

\* currentKey && Array.isArray(parsed[currentKey]); currentKey is null
\* before the first key line, and a key that is the empty string is falsy
NoKey == [set |-> FALSE, key |-> << >>]
Collects(parsed, current) ==
    /\ current.set
    /\ current.key # << >>
    /\ parsed.values[KeyIndex(parsed, current.key)].array

\* parsed[currentKey].push(line.trim().substring(1).trim())
PushItem(parsed, key, line) ==
    [parsed EXCEPT !.values[KeyIndex(parsed, key)].items =
         Append(@, TrimChars(Tail(TrimChars(line))))]

\* for (const line of lines) { ... }
RECURSIVE ParseLoop(_, _, _)
ParseLoop(lines, parsed, current) ==
    IF lines = << >> THEN parsed
    ELSE LET line == Head(lines)
         IN  IF IsArrayItem(line)
             THEN ParseLoop(Tail(lines),
                            IF Collects(parsed, current)
                            THEN PushItem(parsed, current.key, line) ELSE parsed,
                            current)
             ELSE IF HasColon(line)
             THEN ParseLoop(Tail(lines),
                            Assign(parsed, KeyOf(line),
                                   IF ValueOf(line) = << >>
                                   THEN Array(<< >>) ELSE Scalar(ValueOf(line))),
                            [set |-> TRUE, key |-> KeyOf(line)])
             ELSE ParseLoop(Tail(lines), parsed, current)

\* Validator._parseYAML
parseYAML(lines) == ParseLoop(lines, NoParsed, NoKey)

\* PlatformDetector._extractYAMLFrontmatter, on the lines of the block: the
\* same loop
extractYAMLFrontmatter(lines) == ParseLoop(lines, NoParsed, NoKey)

\* the lines of a block: keys with a value, keys with no value, bullets,
\* with and without indentation and colons, a line with neither colon nor
\* dash, and lines whose key is the empty string
LineSet ==
    {<< "k", ":", " ", "v" >>,
     << "j", ":" >>,
     << " ", "k", " ", ":", " " >>,
     << "u", ":", "h", ":", "p" >>,
     << " ", " ", "-", " ", "a", " " >>,
     << "-", "b" >>,
     << "-", " ", "k", ":", " ", "v" >>,
     << "t", "e", "x", "t" >>,
     << ":" >>,
     << ":", "v" >>}

YamlInit ==
    /\ PermOff
    /\ DocOff
    /\ ConvOff
    /\ SetOff
    /\ ValOff
    /\ RaceOff
    /\ ShOff
    /\ SrvOff
    /\ yamlPc = "input"
    /\ \E n \in 1..MaxLines : yamlLines \in [1..n -> LineSet]
    /\ yamlDetector = NoParsed
    /\ yamlValidator = NoParsed

\* detect, then validate, read the frontmatter of the same SKILL.md
ExtractFrontmatter ==
    /\ yamlPc = "input"
    /\ yamlDetector' = extractYAMLFrontmatter(yamlLines)
    /\ yamlPc' = "detected"
    /\ UNCHANGED <<yamlLines, yamlValidator>>
    /\ UNCHANGED nonYamlVars

ParseFrontmatter ==
    /\ yamlPc = "detected"
    /\ yamlValidator' = parseYAML(yamlLines)
    /\ yamlPc' = "parsed"
    /\ UNCHANGED <<yamlLines, yamlDetector>>
    /\ UNCHANGED nonYamlVars

YamlNext == ExtractFrontmatter \/ ParseFrontmatter

SpecYaml == YamlInit /\ [][YamlNext]_vars

----------------------------------------------------------------------------
(* Claims on the tool-permission mapper, checked under SpecPerm *)

\* the list the source SKILL.md allows, and the one the manifest excludes
SkillAllowed == NormalizeAllowed(skillTools)
GeminiExcluded == geminiTools.items

\* the source SKILL.md has a whitelist: a YAML list or a non-empty string
SkillHasWhitelist ==
    skillTools.kind = "array" \/ (skillTools.kind = "string" /\ Len(skillTools.str) > 0)

\* the whitelist names a subset S of the universe, each member once
SkillIsSubset ==
    /\ SkillHasWhitelist
    /\ Range(SkillAllowed) \subseteq ToolSet
    /\ Cardinality(Range(SkillAllowed)) = Len(SkillAllowed)

DegenerateTaken == GeminiExcluded = << >> /\ Includes(permWarnings, ToolWarning)

\* C1 as stated: for every subset S, blacklistToWhitelist(whitelistToBlacklist(S))
\* is S whenever |whitelistToBlacklist(S)| <= |S|, and in every other case the
\* degenerate empty-blacklist branch is taken and the warning emitted.
C1_AsStated ==
    (permPc = "gemini" /\ SkillIsSubset) =>
        /\ (Len(GeminiExcluded) <= Len(SkillAllowed)) =>
               Range(convertExcludeToAllowedTools(GeminiExcluded)) = Range(SkillAllowed)
        /\ (Len(GeminiExcluded) > Len(SkillAllowed)) => DegenerateTaken

\* C1 amended: for every subset S, the round trip through whitelistToBlacklist
\* and blacklistToWhitelist gives back S (in the universe's order) whenever
\* |whitelistToBlacklist(S)| > |S|; in every other case the degenerate
\* empty-blacklist branch is taken and the advisory warning is emitted.
C1_RoundTrip ==
    (permPc = "claude" /\ permFrom = "claude" /\ SkillIsSubset) =>
        /\ (Len(GeminiExcluded) > Len(SkillAllowed)) =>
               /\ claudeTools.present
               /\ claudeTools.items = ListOf(Range(SkillAllowed), "declared")
        /\ (Len(GeminiExcluded) <= Len(SkillAllowed)) => DegenerateTaken

\* C1 witness: a round trip that gave back a whitelist of seven tools, the
\* largest one the non-degenerate branch takes
C1_Witness ==
    /\ permPc = "claude" /\ permFrom = "claude" /\ SkillIsSubset
    /\ Len(SkillAllowed) = 7
    /\ Len(GeminiExcluded) = 9
    /\ claudeTools.present
    /\ Range(claudeTools.items) = Range(SkillAllowed)

\* C2 as stated: after a Claude -> Gemini conversion of a skill whose whitelist
\* W is a subset of the universe, the emitted excludeTools list E satisfies
\* W \cup E = universe.
C2_AsStated ==
    (permPc = "gemini" /\ SkillHasWhitelist /\ Range(SkillAllowed) \subseteq ToolSet) =>
        /\ geminiTools.present
        /\ Range(SkillAllowed) \cup Range(GeminiExcluded) = ToolSet

\* C2 amended: after a Claude -> Gemini conversion of a skill whose whitelist W
\* (a YAML list or a non-empty string) is a subset of the universe, the emitted
\* excludeTools list E satisfies W \cup E = universe and excludes no allowed
\* tool whenever the universe has more tools outside W than the list W has
\* entries; otherwise E is empty and the advisory warning is recorded.
C2_Complement ==
    (permPc = "gemini" /\ SkillHasWhitelist /\ Range(SkillAllowed) \subseteq ToolSet) =>
        LET W == Range(SkillAllowed)
            E == Range(GeminiExcluded)
        IN  /\ geminiTools.present
            /\ (Cardinality(ToolSet \ W) > Len(SkillAllowed)) =>
                   (W \cup E = ToolSet /\ W \cap E = {})
            /\ (Cardinality(ToolSet \ W) <= Len(SkillAllowed)) => DegenerateTaken

\* C2 witness: the whitelist Read, Write, Bash gave the thirteen other tools
C2_Witness ==
    /\ permPc = "gemini"
    /\ skillTools = ArrayTools(<< "Read", "Write", "Bash" >>)
    /\ geminiTools.present
    /\ Len(GeminiExcluded) = 13
    /\ Range(GeminiExcluded) = ToolSet \ {"Read", "Write", "Bash"}

\* C3: whitelistToBlacklist(allowed) returns universe - allowed in the
\* universe's order, except that it returns the empty list exactly when the set
\* universe - allowed has strictly fewer elements than the set of allowed
\* tools; so an exact tie yields the 8-element exclusion list.
C3_SetThreshold ==
    (permPc = "gemini" /\ SkillHasWhitelist) =>
        LET S == Range(SkillAllowed)
            comp == ToolSet \ S
        IN  GeminiExcluded =
                IF Cardinality(comp) < Cardinality(S) THEN << >>
                ELSE ListOf(comp, "declared")

\* C5 as stated: Gemini -> Claude writes allowed-tools = universe - excludeTools
\* in the universe's order whenever the source manifest has an excludeTools
\* field, the empty list included.
C5_AsStated ==
    (permPc = "claude" /\ permFrom = "gemini" /\ geminiTools.present) =>
        claudeTools = SomeList(ListOf(ToolSet \ Range(GeminiExcluded), "declared"))

\* C5 amended: Gemini -> Claude writes allowed-tools = universe - excludeTools
\* in the universe's order whenever the source manifest has a non-empty
\* excludeTools list, given in any order; when the list is empty or the field
\* is absent, no allowed-tools field is written.
C5_Whitelist ==
    (permPc = "claude" /\ permFrom = "gemini") =>
        IF geminiTools.present /\ Len(GeminiExcluded) > 0
        THEN claudeTools = SomeList(ListOf(ToolSet \ Range(GeminiExcluded), "declared"))
        ELSE ~claudeTools.present

\* C5 witness: excludeTools Bash, Edit gave the fourteen other tools
C5_Witness ==
    /\ permPc = "claude" /\ permFrom = "gemini"
    /\ GeminiExcluded = << "Bash", "Edit" >>
    /\ claudeTools.present
    /\ Len(claudeTools.items) = 14
    /\ claudeTools.items[1] = "Read" /\ claudeTools.items[2] = "Write"

----------------------------------------------------------------------------
(* Claims on the generated documents, checked under SpecDoc *)

\* a SKILL.md regenerated by Claude -> Gemini -> Claude from a Claude skill
RoundTripDone ==
    docFrom = "claude" /\ docPc = "claude" /\ docCount = 2

\* the lines of the quick-start banner and of the two conversion footers
BannerLines == {QuickStart, AfterInstall, GeminiFooter, ClaudeFooter}

\* C6: converting a Claude skill to Gemini and back does not duplicate the
\* quick-start banner or the conversion-provenance footer in the regenerated
\* SKILL.md body: for every original body that has each of them at most once
\* (one carried over from an earlier conversion included), each appears at
\* most once afterwards, and the quick-start banner not at all if the
\* original had none.
C6_NoDuplicateBanners ==
    (RoundTripDone /\ \A b \in BannerLines : Count(docOrig, b) <= 1) =>
        /\ \A b \in BannerLines : Count(skillBody, b) <= 1
        /\ Count(docOrig, AfterInstall) = 0 => Count(skillBody, AfterInstall) = 0

\* C7: the GEMINI.md a Claude -> Gemini conversion writes never contains the
\* Claude title banner or the Claude conversion footer, even when the source
\* SKILL.md body contains them.
C7_NoReverseBoilerplate ==
    (docPc = "gemini" /\ docCount >= 1) =>
        /\ Count(geminiMd, ClaudeTitle) = 0
        /\ Count(geminiMd, ClaudeFooter) = 0

----------------------------------------------------------------------------
(* Claims on SkillPorter.convert, checked under Spec *)

\* a converter has run and returned its result
ConverterReturned == pc \in {"converted", "done"} /\ result.message = ""

\* the result object the converter's convert() has just returned
ConvertReturns == pc = "converted"

\* the path of a file in the output directory is listed in result.files
Listed(file) == Includes(result.files, Path(call.out, file))

\* C4: whenever a Claude -> Gemini conversion takes the degenerate
\* empty-blacklist branch, the result returned by convert() carries the
\* tool-restriction advisory in its warnings list, and the advisory does not
\* block success: success is true unless a step has failed.
C4_AdvisoryInWarnings ==
    (ConvertReturns /\ Includes(metaWarnings, ToolWarning)) =>
        /\ Includes(result.warnings, ToolWarning)
        /\ (result.errors = << >> => result.success)

\* a required source document is missing, or a source document that is
\* present does not parse
BadSourceDocument ==
    \/ /\ call.target = PLATFORM_GEMINI
       /\ \/ disk["src"].skill.state \in {"absent", "nofm"}
          \/ disk["src"].market.state = "badjson"
    \/ /\ call.target = PLATFORM_CLAUDE
       /\ disk["src"].manifest.state \in {"absent", "badjson"}

\* C8: for both converters, whenever a required source document is missing or
\* a source document that is present cannot be parsed (SKILL.md without a
\* metadata block, gemini-extension.json or .claude-plugin/marketplace.json
\* that is not valid JSON), convert() returns success:false with a message in
\* errors; no such failure is recovered into a successful conversion.
C8_SourceFailuresAbort ==
    (ConverterReturned /\ BadSourceDocument) =>
        (~result.success /\ result.errors # << >>)

C11_UniversalOutput ==
    (pc = "done" /\ call.op = "makeUniversal" /\ result.success
                 /\ result.platform = PLATFORM_UNIVERSAL) =>
        /\ disk[call.out].exists
        /\ detect(disk[call.out]).platform = PLATFORM_UNIVERSAL

\* a Claude file, a Gemini file is in the source directory
ClaudeFilePresent ==
    disk["src"].skill.state # "absent" \/ disk["src"].market.state # "absent"
GeminiFilePresent ==
    disk["src"].manifest.state # "absent" \/ disk["src"].context.present

\* detect has returned, or has thrown
DetectReturned == pc = "route"
DetectThrew == pc = "thrown" /\ thrown \in {ErrNoDirectory, ErrDetectRead}

\* C12: for every existing directory, detect returns without throwing and
\* classifies: universal if at least one Claude file and at least one Gemini
\* file are present, claude if only Claude files, gemini if only Gemini files,
\* unknown otherwise; confidence is 'high' exactly when the platform is not
\* unknown.  For a path that is not an existing directory detect fails with
\* the directory-not-found error.
C12_DetectClassifies ==
    /\ DetectThrew => (~disk["src"].exists /\ thrown = ErrNoDirectory)
    /\ DetectReturned =>
           /\ disk["src"].exists
           /\ detection.platform =
                  IF ClaudeFilePresent /\ GeminiFilePresent THEN PLATFORM_UNIVERSAL
                  ELSE IF ClaudeFilePresent THEN PLATFORM_CLAUDE
                  ELSE IF GeminiFilePresent THEN PLATFORM_GEMINI
                  ELSE PLATFORM_UNKNOWN
           /\ (detection.confidence = "high") <=> (detection.platform # PLATFORM_UNKNOWN)

\* the call has ended: the result was returned or the error thrown
CallEnded == pc \in {"done", "thrown"}

\* C10: SkillPorter.convert called with a target platform string other than
\* 'claude' or 'gemini' never reports success: for every source directory
\* with a detectable platform (claude, gemini or universal) it fails with the
\* invalid-target-platform error and writes no files.
C10_InvalidTargetFails ==
    (CallEnded /\ call.target \notin {PLATFORM_CLAUDE, PLATFORM_GEMINI}
               /\ detection.platform # PLATFORM_UNKNOWN) =>
        /\ pc = "thrown"
        /\ thrown = ErrInvalidTarget
        /\ result.files = << >>

----------------------------------------------------------------------------
(* Claims on settings inference, checked under SpecSet *)

Inferred == setPc = "inferred"

\* the names of the inferred settings, in their order
InferredNames == [i \in 1..Len(inferred) |-> inferred[i].name]

\* the names a string refers to by the placeholder grammar ${NAME}, NAME one
\* or more characters other than "}"
References(str) ==
    {SubSeq(str, i + 2, j - 1) : <<i, j>> \in
        {<<i, j>> \in (1..Len(str)) \X (1..Len(str)) :
            /\ j >= i + 3
            /\ str[i] = "$" /\ str[i + 1] = "{" /\ str[j] = "}"
            /\ \A k \in (i + 2)..(j - 1) : str[k] # "}"}}

\* the env values in scanning order, and the positions of those that refer
\* to a name
ScannedValues == EnvValues(mcpServers)
Referencing(name) ==
    {k \in 1..Len(ScannedValues) :
        ScannedValues[k].string /\ name \in References(ScannedValues[k].chars)}

\* C13: settings inference returns descriptors whose names are pairwise
\* distinct, in the order of first occurrence when the server configs are
\* scanned in map order and each env map in entry order; two or more env
\* values that refer to the same ${NAME}, in the same or in different
\* servers, yield exactly one descriptor for NAME.
C13_DedupFirstSeen ==
    Inferred =>
        /\ \A i, j \in 1..Len(inferred) : i # j => inferred[i].name # inferred[j].name
        /\ \A i, j \in 1..Len(inferred) :
               (i < j /\ Referencing(inferred[i].name) # {}
                      /\ Referencing(inferred[j].name) # {}) =>
                   Min(Referencing(inferred[i].name)) <= Min(Referencing(inferred[j].name))
        /\ \A k \in 1..Len(ScannedValues) :
               ScannedValues[k].string =>
                   \A name \in References(ScannedValues[k].chars) :
                       Cardinality(Referencing(name)) >= 2 =>
                           Cardinality({i \in 1..Len(inferred) : inferred[i].name = name}) = 1

\* a name contains, whatever the case of its letters, one of the words
\* password, secret, token, key
NameIsSensitive(name) ==
    \E w \in SecretWords : \E i \in 1..(Len(name) - Len(w) + 1) :
        \A k \in 1..Len(w) : LowerChar(name[i + k - 1]) = w[k]

\* C14: for every inferred setting, secret and required are both true if the
\* variable name contains, case-insensitively, one of the substrings password,
\* secret, token, key; otherwise both flags are absent.  The two flags are
\* never set independently of each other.
C14_SecretRequired ==
    Inferred =>
        \A i \in 1..Len(inferred) :
            /\ inferred[i].secret = inferred[i].required
            /\ inferred[i].secret <=> NameIsSensitive(inferred[i].name)

\* settings were inferred for a name with token in mixed case, for a name
\* with key in upper case, and for a name without any of the words
C14_Witness ==
    /\ Inferred
    /\ \E i \in 1..Len(inferred) : inferred[i].name = Auth_Token /\ inferred[i].secret
    /\ \E i \in 1..Len(inferred) : inferred[i].name = API_KEY /\ inferred[i].required
    /\ \E i \in 1..Len(inferred) : inferred[i].name = PASS /\ ~inferred[i].secret

\* C15: settings inference extracts a variable name only from env values
\* matching the placeholder grammar ${NAME}, NAME one or more characters other
\* than "}", and the name of the descriptor is exactly that NAME; no emitted
\* name contains "}" or "${", also when a value holds several placeholders or
\* surrounding text.
C15_PlaceholderGrammar ==
    Inferred =>
        \A i \in 1..Len(inferred) :
            /\ Referencing(inferred[i].name) # {}
            /\ ~StrIncludes(inferred[i].name, << "}" >>)
            /\ ~StrIncludes(inferred[i].name, << "$", "{" >>)

----------------------------------------------------------------------------
(* Claims on the validator, checked under SpecVal *)

Validated == valPc = "validated"

\* an error, a warning of the result
Reported(msg) == Includes(valResult.errors, msg)
Warned(msg) == Includes(valResult.warnings, msg)

\* the platform asks for the Claude checks, the Gemini checks
ClaudeChecked == valPlatform \in {PLATFORM_CLAUDE, PLATFORM_UNIVERSAL}
GeminiChecked == valPlatform \in {PLATFORM_GEMINI, PLATFORM_UNIVERSAL}

\* C16: every ValidationResult returned by validate satisfies
\* valid = (errors is empty), on the normal path and on the path where a
\* sub-check throws; the number of warnings never affects valid.
C16_ValidIffNoErrors ==
    Validated => (valResult.valid <=> (Len(valResult.errors) = 0))

\* validate has returned from its catch block, after a sub-check threw
C16_Witness ==
    /\ Validated
    /\ Reported(ErrValidationThrew)
    /\ ~valResult.valid

\* the frontmatter of SKILL.md is read, with a value for name, for description
FrontmatterRead == ClaudeChecked /\ valDir.skill.state = "ok"
NameSupplied == valDir.skill.name \notin {"none", "blank"}
DescSupplied == valDir.skill.desc \notin {"none", "blank"}

\* C17: Claude validation of the metadata-block fields: a name yields an error
\* iff it contains a character outside lowercase letters, digits and hyphen
\* or is longer than 64 characters; a description of length L >= 1 yields an
\* error iff L > 1024 and a warning iff L < 50; a 40-character description
\* gives a warning with valid:true when nothing else is wrong, and an
\* 1100-character description gives valid:false.
C17_FieldRules ==
    (Validated /\ FrontmatterRead) =>
        /\ NameSupplied =>
               ((Reported(ErrNamePattern) \/ Reported(ErrNameLength))
                   <=> (valDir.skill.name = "upper" \/ NameLength(valDir.skill.name) > 64))
        /\ (DescSupplied /\ DescLength(valDir.skill.desc) >= 1) =>
               /\ Reported(ErrDescLength) <=> (DescLength(valDir.skill.desc) > 1024)
               /\ Warned(WarnDescShort) <=> (DescLength(valDir.skill.desc) < 50)
        /\ (DescLength(valDir.skill.desc) = 40 /\ valDir.skill.name = "ok"
               /\ valPlatform = PLATFORM_CLAUDE /\ valDir.market.state = "absent") =>
               (valResult.valid /\ Warned(WarnDescShort))
        /\ DescLength(valDir.skill.desc) = 1100 => ~valResult.valid

\* a description of exactly 1024 characters was validated without an error
C17_Witness ==
    /\ Validated
    /\ FrontmatterRead
    /\ DescLength(valDir.skill.desc) = 1024
    /\ valResult.valid

\* C18: for platform claude or universal, validate reports an error
\* (valid:false) whenever SKILL.md is missing, has no metadata block, or its
\* metadata block does not supply a value for name or does not supply a
\* value for description (key absent, or key written with nothing after the
\* colon).
C18_RequiredFields ==
    (Validated /\ ClaudeChecked
       /\ \/ valDir.skill.state \in {"absent", "nofm"}
          \/ valDir.skill.state = "ok" /\ (~NameSupplied \/ ~DescSupplied)) =>
        (~valResult.valid /\ Len(valResult.errors) > 0)

\* the marketplace.json of the directory is validated
MarketValidated ==
    /\ ClaudeChecked
    /\ valDir.skill.state = "ok"
    /\ valDir.market.state = "ok"

\* an error on marketplace.json is reported
MarketError ==
    \E i \in 1..Len(valResult.errors) :
        valResult.errors[i] \in
            {"marketplace.json missing required field: name",
             "marketplace.json missing required field: metadata",
             ErrNoPlugins,
             "Plugin at index 0 missing required field: name",
             "Plugin at index 0 missing required field: description"}

\* C19: when .claude-plugin/marketplace.json exists, Claude validation reports
\* an error unless the manifest has a name, a metadata object, and a non-empty
\* plugins array in which every entry has name and description: a missing,
\* non-array or empty plugins value is an error, and each plugin entry lacking
\* name or description adds one error naming its index.
C19_MarketplaceRules ==
    (Validated /\ MarketValidated) =>
        /\ MarketError <=>
               ~(/\ valDir.market.name
                 /\ valDir.market.meta
                 /\ valDir.market.plugins = "one"
                 /\ valDir.market.pname /\ valDir.market.pdesc)
        /\ valDir.market.plugins \in {"none", "nonarray", "empty"} => Reported(ErrNoPlugins)
        /\ (valDir.market.plugins = "one" /\ ~valDir.market.pname) =>
               Reported("Plugin at index 0 missing required field: name")
        /\ (valDir.market.plugins = "one" /\ ~valDir.market.pdesc) =>
               Reported("Plugin at index 0 missing required field: description")

\* every error of a list is reported
AllReported(errors) == \A i \in 1..Len(errors) : Reported(errors[i])

\* C20: one validate run reports every problem present in the directory: an
\* error found by one sub-check never prevents the remaining sub-checks from
\* running (problems of SKILL.md and problems of marketplace.json are both
\* reported; for universal, Claude-side and Gemini-side problems are both
\* reported), and no sub-check failure is thrown mid-check.
C20_AllProblemsReported ==
    Validated =>
        /\ ~Reported(ErrValidationThrew)
        /\ (ClaudeChecked /\ valDir.market.state \in {"ok", "badjson"}) =>
               AllReported(validateMarketplaceJSON(valDir.market).errors)
        /\ (ClaudeChecked /\ valDir.skill.state \in {"ok", "nofm"}) =>
               AllReported(validateClaude([valDir EXCEPT !.market = NoMarketplace]).errors)
        /\ (GeminiChecked /\ valDir.manifest.state \in {"ok", "badjson", "absent"}) =>
               AllReported(validateGemini(valDir, BaseName("src")).errors)

----------------------------------------------------------------------------
(* Claims on validate calls sharing a Validator, checked under SpecRace *)

\* the errors and the warnings the result of a call holds
ResultArrays(i) == raceHeap[raceCalls[i].result.arrays]

\* the result one call of validate on the directory gives on a Validator
\* that no other call uses
OwnResult(i) == validate(raceCalls[i].dir, BaseName("src"), raceCalls[i].platform)

\* the result of the call is the result of its directory
ResultIsOwn(i) ==
    /\ ResultArrays(i).errors = OwnResult(i).errors
    /\ ResultArrays(i).warnings = OwnResult(i).warnings
    /\ raceCalls[i].result.valid = OwnResult(i).valid

\* C21: there is no shared mutable state across calls: the ValidationResult
\* of a validate call on a Validator contains exactly the errors and the
\* warnings of that call's directory, regardless of the other validate calls
\* on the same instance, whether they completed earlier or are in flight and
\* interleaved at its await points.
C21_NoSharedState ==
    \A i \in DOMAIN raceCalls : raceCalls[i].result.returned => ResultIsOwn(i)

----------------------------------------------------------------------------
(* Claims on the directory shared/, checked under SpecShared *)

\* the conversion is in the branch of _ensureSharedStructure that creates
Creating == shPc \in {"mkdir", "reference", "examples"}

\* C22: both converters create the shared/ directory with its two
\* placeholder documents (reference.md, examples.md) only when shared/ does
\* not exist in the output directory; when it exists, nothing under it is
\* created, modified or overwritten, so over any sequence of conversions into
\* the same output directory existing shared/ contents are left unchanged.
C22_SharedUntouched ==
    shPc \notin {"off", "idle"} =>
        /\ shBefore.exists => shDir = shBefore
        /\ Creating => ~shBefore.exists
        /\ (shPc = "returned" /\ shSuccess /\ ~shBefore.exists) =>
               shDir = [exists |-> TRUE, reference |-> "placeholder",
                        examples |-> "placeholder"]

\* a later conversion of a sequence has returned with success on a shared/
\* that holds a document of the user and lacks a placeholder
C22_Witness ==
    /\ shPc = "returned" /\ shSuccess /\ shRuns >= 2
    /\ shBefore.exists /\ shBefore.reference = "user" /\ shBefore.examples = "absent"
    /\ shDir = shBefore

----------------------------------------------------------------------------
(* Further claims on SkillPorter.convert, checked under Spec *)

\* the GeminiToClaudeConverter has returned from convert() on a source whose
\* gemini-extension.json parses and has the keys name and version, and no
\* write into the output directory was rejected
RequiredKeysConverted ==
    /\ ConvertReturns
    /\ call.target = PLATFORM_CLAUDE
    /\ disk["src"].manifest.state = "ok"
    /\ disk["src"].manifest.name # "none"
    /\ disk["src"].manifest.version
    /\ ~Includes(result.errors, ErrWrite)

\* C23: Gemini -> Claude convert() returns success:true for every source
\* directory whose gemini-extension.json parses and has the required keys
\* name and version, whether or not the optional keys (description,
\* excludeTools, mcpServers, settings, contextFileName) and the optional
\* context file are present.
C23_OptionalKeysOptional == RequiredKeysConverted => result.success

----------------------------------------------------------------------------
(* Claims on the server configs, checked under SpecServers *)

\* the argument lists of the source configs hold no "${extensionPath}/"
NoExtensionPath ==
    \A s \in DOMAIN srvSource : \A i \in DOMAIN srvSource[s].args :
        ~StrIncludes(srvSource[s].args[i], ExtensionPath)

\* the argument lists of two lists of configs are the same
SameArgs(a, b) ==
    /\ DOMAIN a = DOMAIN b
    /\ \A s \in DOMAIN a : a[s].hasArgs = b[s].hasArgs /\ a[s].args = b[s].args

\* C24: server-argument rewriting round-trips: for every argument list
\* containing no '${extensionPath}/' occurrence, applying the Claude -> Gemini
\* rewrite (prefix '${extensionPath}/' to arguments that start with a letter
\* and do not start with '${') and then the Gemini -> Claude rewrite (strip
\* '${extensionPath}/') returns the original list; and the Claude -> Gemini
\* rewrite is idempotent (applying it twice equals applying it once).
C24_ArgsRoundTrip ==
    /\ (srvPc = "claude" /\ NoExtensionPath) => SameArgs(srvClaude, srvSource)
    /\ srvPc = "again" => SameArgs(srvAgain, srvGemini)
    /\ srvPc = "gemini" =>
           \A s \in DOMAIN srvSource : \A i \in DOMAIN srvSource[s].args :
               LET arg == srvSource[s].args[i]
               IN  srvGemini[s].args[i] =
                       IF StartsWithLetter(arg) THEN ExtensionPath \o arg ELSE arg

\* a list of a path that starts with a letter and a flag has gone to Gemini
\* and back
C24_Witness ==
    /\ srvPc = "claude"
    /\ srvSource[1].args = << << "s", ".", "j", "s" >>, << "-", "y" >> >>
    /\ srvGemini[1].args = << ExtensionPath \o << "s", ".", "j", "s" >>, << "-", "y" >> >>
    /\ srvClaude[1].args = srvSource[1].args

\* C25: Claude -> Gemini conversion preserves every server configuration's
\* environment map: each env key maps to the same string value in the
\* generated manifest as in the source, whether the value is a bare ${VAR}
\* placeholder, a string containing one or more placeholders among other
\* text, or a string with no placeholder.
C25_EnvPreserved ==
    srvPc = "gemini" =>
        \A s \in DOMAIN srvSource :
            /\ srvGemini[s].hasEnv = srvSource[s].hasEnv
            /\ srvGemini[s].env = srvSource[s].env

----------------------------------------------------------------------------
(* Claims on the metadata-block extractor, checked under SpecYaml *)

\* the rule of the extractor: a line that begins with a dash is a bullet,
\* appended to the array being collected, if one is; any other line with a
\* colon is a key line, which starts the collection of an array when its value
\* is empty and ends it otherwise; any other line changes nothing
RECURSIVE RuleLoop(_, _, _)
RuleLoop(lines, parsed, collecting) ==
    IF lines = << >> THEN parsed
    ELSE LET line == Head(lines)
         IN  IF IsArrayItem(line)
             THEN RuleLoop(Tail(lines),
                           IF collecting.set
                           THEN PushItem(parsed, collecting.key, line) ELSE parsed,
                           collecting)
             ELSE IF HasColon(line)
             THEN RuleLoop(Tail(lines),
                           Assign(parsed, KeyOf(line),
                                  IF ValueOf(line) = << >>
                                  THEN Array(<< >>) ELSE Scalar(ValueOf(line))),
                           [set |-> ValueOf(line) = << >>, key |-> KeyOf(line)])
             ELSE RuleLoop(Tail(lines), parsed, collecting)

\* C26: the metadata-block extractor (in the detector and, identically, in
\* the validator) processes lines in order such that: every line containing a
\* colon while no array is being collected starts a new key (text before the
\* first colon, trimmed) mapped to the trimmed text after the first colon; a
\* key with an empty value becomes an array to which each following
\* dash-bullet line is appended (trimmed bullet text, in order) until the next
\* key line; dash-bullet lines following a key with a scalar value change
\* nothing.
C26_ExtractorRule ==
    /\ yamlPc \in {"detected", "parsed"} =>
           yamlDetector = RuleLoop(yamlLines, NoParsed, NoKey)
    /\ yamlPc = "parsed" => yamlValidator = yamlDetector

----------------------------------------------------------------------------
(* Claims on the order of the steps of SkillPorter.convert, and on what      *)
(* detection promises to it, checked under Spec *)

\* detection has returned a platform that a converter is called for
ConversionNeeded ==
    /\ detection.platform \notin {PLATFORM_UNKNOWN, PLATFORM_UNIVERSAL}
    /\ detection.platform # call.target
    /\ pc \notin {"idle", "detect", "u_detect", "route"}

\* a step that writes into a directory
Writes == disk' # disk

\* a step in which the validator runs
ValidatorRuns == ~result.validation.ran /\ result'.validation.ran

\* C27: in SkillPorter.convert the steps run in the order detect -> convert
\* -> validate: nothing is written before detection has returned a platform
\* that is neither unknown nor universal nor equal to the target; the
\* validator runs only after the converter returned success and only when the
\* validate option is not false, on outputPath for the target platform; and
\* whenever the returned result has success:true and a validation field,
\* validation.valid is true.
C27_StepOrder ==
    [][/\ Writes => ConversionNeeded
       /\ ValidatorRuns =>
              /\ pc = "converted" /\ result.success /\ call.validate
              /\ result'.validation =
                     validate(disk[call.out], BaseName(call.out), call.target)
       /\ (result'.success /\ result'.validation.ran) => result'.validation.valid]_vars

\* a conversion that wrote its two files has been validated and returned
\* success
C27_Witness ==
    /\ pc = "done" /\ call.op = "convert"
    /\ detection.platform = PLATFORM_CLAUDE /\ call.target = PLATFORM_GEMINI
    /\ Len(result.files) = 2
    /\ result.success /\ result.validation.ran /\ result.validation.valid

----------------------------------------------------------------------------
(* Further claims on the validator, checked under SpecVal *)

\* the platform passed to Validator.validate is none of the three it checks
NoPlatformChecked ==
    valPlatform \notin {PLATFORM_CLAUDE, PLATFORM_GEMINI, PLATFORM_UNIVERSAL}

\* C28: Validator.validate called with a platform that is none of 'claude',
\* 'gemini', 'universal' (including 'unknown', which SkillPorter.validate
\* passes on when auto-detection finds no recognized files) runs no checks and
\* returns valid:true with empty errors and empty warnings.
C28_UnknownPlatformValid ==
    (Validated /\ NoPlatformChecked) =>
        /\ valResult.valid
        /\ valResult.errors = << >>
        /\ valResult.warnings = << >>

\* validate has returned valid for platform 'unknown' on a directory that
\* fails the checks of every known platform
C28_Witness ==
    /\ Validated
    /\ valPlatform = PLATFORM_UNKNOWN
    /\ valDir.skill.state = "nofm" /\ valDir.manifest.state = "badjson"
    /\ ~validate(valDir, BaseName("src"), PLATFORM_UNIVERSAL).valid
    /\ valResult = [ran |-> TRUE, valid |-> TRUE, errors |-> << >>, warnings |-> << >>]

----------------------------------------------------------------------------
(* A further claim on detection and SkillPorter.convert, checked under Spec *)

\* C29: a detected platform always has the entry document its converter
\* requires: whenever detect returns platform 'claude' the directory contains
\* SKILL.md, and whenever it returns 'gemini' the directory contains
\* gemini-extension.json, so SkillPorter.convert on a directory detected as
\* claude or gemini never fails because the required source document is
\* missing.
C29_EntryDocumentPresent ==
    /\ detection.platform = PLATFORM_CLAUDE => disk["src"].skill.state # "absent"
    /\ detection.platform = PLATFORM_GEMINI => disk["src"].manifest.state # "absent"
    /\ (ConverterReturned /\ Includes(result.errors, ErrSkillMissing)) =>
           disk["src"].skill.state # "absent"
    /\ (ConverterReturned /\ Includes(result.errors, ErrManifestMissing)) =>
           disk["src"].manifest.state # "absent"

----------------------------------------------------------------------------
(* Further claims on the generated documents, checked under SpecDoc *)

\* the lines a conversion adds around a body
BoilerplateLines ==
    {GeminiTitle, ClaudeTitle, Description, QuickStart, AfterInstall, Rule,
     GeminiFooter, ClaudeFooter}

\* the original body has text, and none of the lines a conversion adds
PlainOriginal ==
    /\ TrimStr(docOrig) # EmptyStr
    /\ \A b \in BoilerplateLines : Count(docOrig, b) = 0

\* a SKILL.md body made of the Claude title, the description, a body and the
\* Claude footer
TitledBody(body) ==
    CatAll(<< << Blank, Blank >>,
              << ClaudeTitle, Blank, Blank >>,
              << Description, Blank, Blank >>,
              Cat(TrimStr(body), << Blank, Blank, Blank >>),
              << Rule, Blank, Blank >>,
              << ClaudeFooter, Blank >> >>)

\* C30: body recovery on round trip: for a Claude skill whose body contains
\* no conversion boilerplate and whose manifest yields no settings,
\* converting A -> B and then B -> A produces a SKILL.md body consisting of
\* the generated Claude title, the description exactly once, the original
\* body text, and the Claude footer; no part of the Gemini boilerplate added
\* by A -> B (title line, description paragraph, quick-start section, footer)
\* remains in it.
C30_BodyRecovered ==
    (RoundTripDone /\ PlainOriginal /\ docSettings = 0 /\ docDesc = "ok") =>
        /\ skillBody = TitledBody(docOrig)
        /\ Count(skillBody, Description) = 1
        /\ \A b \in {GeminiTitle, QuickStart, AfterInstall, GeminiFooter} :
               Count(skillBody, b) = 0

==========================================================================
